---- MODULE Spec2Model ----
(***************************************************************************)
(* Verification model of the DesicAi trading agent:                        *)
(*   - the standalone data collector (order book, klines, watchdog,        *)
(*     restart supervisor)            src/standalone_data_collector.py     *)
(*   - the streaming decision engine and the order orchestrator            *)
(*                                    src/examples/enhanced_trading.py     *)
(* Each subsystem has its own next-state relation and specification; all   *)
(* share one initial state.                                                *)
(***************************************************************************)
EXTENDS Integers, Sequences, FiniteSets, TLC

\* ------------------------------------------------------------------------
\* Bounds of the model
\* ------------------------------------------------------------------------
MaxSeqId == 4
NumBars == 2
MaxSnapSeq == 2
MaxKlineMsgs == 3
MaxRestarts == 2

\* ------------------------------------------------------------------------
\* State
\* ------------------------------------------------------------------------
VARIABLES
    \* --- order book of one symbol (collector + live store) ---
    orderbook_initialized,  \* StandaloneDataCollector.orderbook_initialized[sym]
    bookBids,               \* live store: price -> size, bids
    bookAsks,               \* live store: price -> size, asks
    lastSeqId,              \* live store: seqId of the last stored message
    exSeq,                  \* exchange side: seqId of the last message sent
    streamOk,               \* history: a snapshot was received and every later
                            \* message had prevSeqId = seqId of its predecessor
    expBids,                \* history: price -> size (0 = absent) the stream defines
    expAsks,
    bookLast,               \* history: kind of the last book message handled
    snapSeen,               \* history: a snapshot arrived since the instance started
    \* --- klines of one (symbol, timeframe) ---
    klines,                 \* persisted klines: openTime -> record or NoKline
    kline_cache,            \* StandaloneDataCollector.kline_cache[sym][tf]
    klinePool,              \* tasks submitted to self.executor, not yet run
    klineRecv,              \* number of kline messages received so far
    klineLast,              \* history: what the last save_kline did
    klineDone,              \* history: receive number of the last message applied
    \* --- restart supervisor (main) and watchdog (_monitor_status) ---
    restart_count,          \* main: restart_count
    supPc,                  \* main: "loop", "sleep", "running", "after", "exited"
    instances,              \* number of StandaloneDataCollector objects created
    is_running,             \* collector.is_running
    need_restart,           \* collector.need_restart
    tasks_alive,            \* collector.background_tasks not cancelled
    ws_open,                \* the two WebSocket sessions are open
    exitCode,               \* process exit code, NoExit while it runs
    kline_age,              \* corrected now - kline last update (s), NoTs if none
    trade_age,              \* corrected now - latest trade ts (s), NoTs if none
    book_age,               \* corrected now - live book ts (s), NoTs if none
    silence,                \* history: seconds since the running instance last
                            \* received a message (since its start if none)
    lastEnd,                \* history: how the current instance ended, "none" before
    prevEnd,                \* history: how the instance before it ended
    wdMax,                  \* history: largest recorded age seen by the last
                            \* watchdog check of this instance, NoTs if none
    wdQuiet,                \* history: the last watchdog check of this instance found
                            \* no recorded timestamp after a silence above the timeout
    cleanEndAt,             \* history: value of instances when an instance ended
                            \* without need_restart, 0 if that never happened
    causes,                 \* history: causes of the restarts counted so far
    \* --- streaming decision engine (ai_analysis) ---
    llmPc,                  \* ai_analysis: "idle", "streaming", "done"
    llmResp,                \* the response the LLM is streaming
    sent,                   \* number of its tokens received so far
    early_decision_triggered,
    early_decision_data,
    analysis,               \* self.analysis
    rcPool,                 \* run_conversation tasks submitted to executor_,
                            \* not yet started
    submits,                \* history: run_conversation tasks submitted
    orchCalls,              \* history: what each run_conversation read
    llmResult,              \* the dict that ai_analysis returned, or NotReturned
    \* --- order orchestrator (execute_trade) and the exchange ---
    auto_execute,           \* self.auto_execute: orders are permitted
    instrument_info,        \* self.instrument_info: NoInfo or the instrument's data
    positions,              \* exchange: size of the long and of the short position
    cached_positions,       \* self.cached_positions: the same, as last fetched
    liveOrders,             \* exchange: live limit and conditional orders
    orchPc,                 \* position of execute_trade
    decision,               \* the decision (self.analysis) being executed
    orchCtx,                \* "open" or "adjust": who applies the layers
    applyQueue,             \* execute_adjust_stop: positions still to adjust
    applySide,              \* _apply_adjust_data: its pos_side
    toCancel,               \* listed orders the cancel loop has not reached
    layerIdx,               \* index of the next layer to place
    apiLog,                 \* history: exchange calls of the current apply
    liveAtStart,            \* history: orders live when the apply started
    cancelFailed,           \* history: a listing or cancel request failed
    applyClean,             \* history: every request of this _apply_adjust_data succeeded
    prevApply,              \* history: side, plan and outcome of the last _apply_adjust_data that returned
    dispatched,             \* number of decisions that execute_trade took up
    closeAsked,             \* history: side of the open position the last decision asked to close
    passedOver,             \* history: run_conversation did not call execute_trade for the last decision
    \* --- analysis cycle and its freshness gate (run_analysis) ---
    gatePc,                 \* "idle", "extracted", "ai_analysis", "returned"
    features,               \* what extract_dual_timeframe_features returned
    kline_last_update,      \* age in s of the kline last-update, or NoTs
    pressure_ts,            \* age in s of the latest 1-minute pressure, or NoTs
    gateResult,             \* what run_analysis returned at the gate
    llmCalled,              \* history: the LLM was called in this cycle
    orchCalled,             \* history: run_conversation was submitted in it
    \* --- conversation records and decision journal ---
    jPc,                    \* "startup" until _load_decision_history has run
    ai_decision_history,    \* the list self.ai_decision_history refers to
    historyFile,            \* entries of ai_decision_history.json
    current_conversation_id,
    conversations,          \* ConversationRecords of the database, by id
    saveTasks,              \* the save_task threads
    llmCalls,               \* number of LLM decision calls made
    reported,               \* calls whose execution the orchestrator reported
    llmPhase,               \* what self.analysis holds of the current call
    orchFor,                \* the call the orchestrator is executing, or 0
    \* --- cache refreshers: positions, closed positions and their reviews ---
    feishu_enabled,         \* self.feishu_enabled and a webhook url are set
    exchOpen,               \* exchange: cTime of the open positions
    exchClosed,             \* exchange: cTime of the positions in the positions history
    stop_position_thread,   \* self.stop_position_thread
    posPc,                  \* update_position_cache: "new", "tick", "diff", "stopped"
    cached_ctimes,          \* cTime of the positions in self.cached_positions
    fetched,                \* enriched_positions of the tick, by cTime
    toNotify,               \* closed positions the loop of line 682 has not reached
    notified,               \* history: send_feishu_content was called for these in this tick
    posted,                 \* history: the webhook request was made for these in this tick
    stop_history_thread,    \* self.stop_history_thread
    closedDb,               \* store: open_time of the closed-position rows
    cached_historical_positions,  \* open_time of the rows in self.cached_historical_positions
    reviewed,               \* store: rows that hold a review summary
    attempted,              \* history: positions an LLM call was made for in an earlier tick or this one
    lastCalls,              \* history: positions an LLM call was made for in the last tick
    historyTick,            \* history: flips at every tick of the history loop that got an answer
    positions_last_update,  \* self.positions_last_update: 0 for None, else a stamp
    refreshResult,          \* history: how the last request of the positions refresher
                            \* ended, "none" once its snapshot was taken over
    \* --- history backfill of one (symbol, timeframe) ---
    histClock,              \* datetime.now() of the collector's host, in ms
    dbBars,                 \* store: timestamp of the kline rows of the timeframe
    backPc,                 \* _init_history_data: "idle", "fetch", "done", "failed"
    missing_ranges,         \* what _detect_missing_ranges returned in this run
    toFill,                 \* ranges the loop of line 790 has not reached
    requested,              \* history: ranges _fetch_and_save_klines was called for in this run
    insertedRows,           \* history: rows this run added to the store
    prevInserted,           \* history: rows the run before added to the store
    \* --- paging of one call of _fetch_and_save_klines ---
    pagePc,                 \* "idle", "loop", "returned"
    current_after,          \* _fetch_and_save_klines: current_after
    iteration,              \* requests made by the call so far
    count,                  \* _fetch_and_save_klines: count
    lastPage,               \* history: the answer to the last request
    \* --- clocks, time sync and the repair of unconfirmed klines at start ---
    timePc,                 \* start: "new", "sync", "synced", "fix", "repaired"
    skew,                   \* the host's clock minus the exchange's clock
    srvNow,                 \* the exchange's clock
    samples,                \* _sync_server_time: samples
    sampleNo,               \* _sync_server_time: i, queries made so far
    syncRaised,             \* history: a query of the sync raised
    time_offset_ms,         \* self.time_offset_ms
    unconfirmed,            \* history: timestamps get_unconfirmed_klines returned
    storedKlines,           \* store: timestamp -> [confirmed, data] of a kline row
    toFix,                  \* _fix_unconfirmed_klines: klines the loop has not reached
    now_ms,                 \* _fix_unconfirmed_klines: now_ms
    fixAnswers,             \* history: timestamp -> answer to the repair's request
    lastRead,               \* history: the last reading of 'now' for a freshness test
    \* --- the WebSocket sessions of the collector ---
    ws_running,             \* StandaloneDataCollector.is_running of this collector
    executor,               \* self.executor: "new", "up", "shutdown"
    session,                \* session -> state of the session
    drops,                  \* session -> connections lost or failed so far
    subscriptions           \* history: session -> times its subscriptions were sent

bookVars == <<orderbook_initialized, bookBids, bookAsks, lastSeqId, exSeq,
              streamOk, expBids, expAsks, bookLast, snapSeen>>
klineVars == <<klines, kline_cache, klinePool, klineRecv, klineLast,
               klineDone>>

supVars == <<restart_count, supPc, instances, is_running, need_restart,
             tasks_alive, ws_open, exitCode, kline_age, trade_age, book_age,
             silence, lastEnd, prevEnd, wdMax, wdQuiet, cleanEndAt, causes>>

llmVars == <<llmPc, llmResp, sent, early_decision_triggered,
             early_decision_data, analysis, rcPool, submits, orchCalls, llmResult>>

orchVars == <<auto_execute, instrument_info, positions, cached_positions, liveOrders, orchPc, decision,
              orchCtx, applyQueue, applySide, toCancel, layerIdx, apiLog,
              liveAtStart, cancelFailed, applyClean, prevApply, dispatched,
              closeAsked, passedOver>>

gateVars == <<gatePc, features, kline_last_update, pressure_ts, gateResult,
              llmCalled, orchCalled>>

journalVars == <<jPc, ai_decision_history, historyFile,
                 current_conversation_id, conversations, saveTasks, llmCalls,
                 reported, llmPhase, orchFor>>

cacheVars == <<feishu_enabled, exchOpen, exchClosed, stop_position_thread,
               posPc, cached_ctimes, fetched, toNotify, notified, posted,
               stop_history_thread, closedDb, cached_historical_positions,
               reviewed, attempted, lastCalls, historyTick,
               positions_last_update, refreshResult>>

backVars == <<histClock, dbBars, backPc, missing_ranges, toFill, requested,
              insertedRows, prevInserted>>

pageVars == <<pagePc, current_after, iteration, count, lastPage>>

timeVars == <<timePc, skew, srvNow, samples, sampleNo, syncRaised,
              time_offset_ms,
              unconfirmed, storedKlines, toFix, now_ms, fixAnswers, lastRead>>

wsVars == <<ws_running, executor, session, drops, subscriptions>>

collVars == <<pageVars, timeVars, wsVars>>

vars == <<bookVars, klineVars, supVars, llmVars, orchVars, gateVars,
          journalVars, cacheVars, backVars, collVars>>

\* ------------------------------------------------------------------------
\* Order book: messages of the "books" channel
\* ------------------------------------------------------------------------
BidPrices == {99, 100}
AskPrices == {101}
Sizes == {0, 1, 2}
NoSeq == -1

\* A side of a message is a list of [price, size] levels, best price first
\* (bids descending, asks ascending), one level per price.
RECURSIVE LevelsDesc(_)
LevelsDesc(f) ==
    IF DOMAIN f = {} THEN <<>>
    ELSE LET p == CHOOSE x \in DOMAIN f : \A y \in DOMAIN f : y <= x
         IN  <<[price |-> p, size |-> f[p]]>>
                 \o LevelsDesc([q \in DOMAIN f \ {p} |-> f[q]])

RECURSIVE LevelsAsc(_)
LevelsAsc(f) ==
    IF DOMAIN f = {} THEN <<>>
    ELSE LET p == CHOOSE x \in DOMAIN f : \A y \in DOMAIN f : y >= x
         IN  <<[price |-> p, size |-> f[p]]>>
                 \o LevelsAsc([q \in DOMAIN f \ {p} |-> f[q]])

PartialFns(P, S) == UNION {[D -> S] : D \in SUBSET P}

\* Snapshots carry only live levels (size > 0) and at least one of them;
\* updates carry any sizes.  An update with both sides empty is the
\* exchange's heartbeat and has prevSeqId = seqId (comment at line 373).
SnapshotSides ==
    {s \in PartialFns(BidPrices, Sizes \ {0}) \X PartialFns(AskPrices, Sizes \ {0}) :
        DOMAIN s[1] # {} \/ DOMAIN s[2] # {}}
\* An update names at most one price per side.
UpdateSides ==
    {s \in PartialFns(BidPrices, Sizes) \X PartialFns(AskPrices, Sizes) :
        /\ DOMAIN s[1] # {} \/ DOMAIN s[2] # {}
        /\ Cardinality(DOMAIN s[1]) <= 1}
\* The updates sent after a lost message or a sequence reset name one price.
LoneSides ==
    {s \in UpdateSides : Cardinality(DOMAIN s[1]) + Cardinality(DOMAIN s[2]) = 1}

\* DataManager.save_orderbook_to_redis(symbol, action, bids, asks, timestamp, seqId)
\* one level of an update: size 0 deletes the price, any other size upserts it
ApplyLevel(book, lv) ==
    IF lv.size = 0
    THEN [p \in DOMAIN book \ {lv.price} |-> book[p]]
    ELSE [p \in DOMAIN book \cup {lv.price} |->
             IF p = lv.price THEN lv.size ELSE book[p]]

RECURSIVE ApplyLevels(_, _)
ApplyLevels(book, levels) ==
    IF levels = <<>> THEN book
    ELSE ApplyLevels(ApplyLevel(book, Head(levels)), Tail(levels))

EmptyBook == [p \in {} |-> 0]

save_orderbook_to_redis(action, bids, asks, seqId) ==
    /\ bookBids' = IF action = "snapshot" THEN ApplyLevels(EmptyBook, bids)
                   ELSE ApplyLevels(bookBids, bids)
    /\ bookAsks' = IF action = "snapshot" THEN ApplyLevels(EmptyBook, asks)
                   ELSE ApplyLevels(bookAsks, asks)
    /\ lastSeqId' = seqId

\* StandaloneDataCollector._process_orderbook(symbol, action, book)
IsHeartbeatOr(bids, asks) == bids = <<>> \/ asks = <<>>

IsHeartbeat(bids, asks) == bids = <<>> /\ asks = <<>>

_process_orderbook_any(action, bids, asks, seqId, prevSeqId) ==
    IF IsHeartbeat(bids, asks)
    THEN UNCHANGED <<orderbook_initialized, bookBids, bookAsks, lastSeqId>>
    ELSE IF action = "snapshot"
    THEN /\ save_orderbook_to_redis(action, bids, asks, seqId)
         /\ orderbook_initialized' = TRUE
    ELSE /\ save_orderbook_to_redis(action, bids, asks, seqId)
         /\ UNCHANGED orderbook_initialized

_process_orderbook(action, bids, asks, seqId, prevSeqId) ==
    IF IsHeartbeat(bids, asks)
    THEN UNCHANGED <<orderbook_initialized, bookBids, bookAsks, lastSeqId>>
    ELSE IF action = "snapshot"
    THEN /\ save_orderbook_to_redis(action, bids, asks, seqId)
         /\ orderbook_initialized' = TRUE
    ELSE IF ~orderbook_initialized
    THEN UNCHANGED <<orderbook_initialized, bookBids, bookAsks, lastSeqId>>
    ELSE /\ save_orderbook_to_redis(action, bids, asks, seqId)
         /\ UNCHANGED orderbook_initialized

\* What the message stream defines, price by price: the size in the latest
\* message that names the price.
Overlay(exp, f) == [p \in DOMAIN exp |-> IF p \in DOMAIN f THEN f[p] ELSE exp[p]]
Zero(P) == [p \in P |-> 0]
Live(exp) == [p \in {q \in DOMAIN exp : exp[q] # 0} |-> exp[p]]

\* on_public_message: a snapshot of the books channel
BookSnapshot ==
    \E s \in SnapshotSides, q \in 1..MaxSnapSeq :
        /\ _process_orderbook("snapshot", LevelsDesc(s[1]), LevelsAsc(s[2]), q, NoSeq)
        /\ exSeq' = q
        /\ streamOk' = TRUE
        /\ expBids' = Overlay(Zero(BidPrices), s[1])
        /\ expAsks' = Overlay(Zero(AskPrices), s[2])
        /\ bookLast' = "snapshot"
        /\ snapSeen' = TRUE
        /\ UNCHANGED <<klineVars, supVars, llmVars, orchVars, gateVars, journalVars, cacheVars,
                   backVars, collVars>>

\* on_public_message: an update that follows the previous message
\* (prevSeqId = seqId of the message before it)
BookUpdate ==
    /\ exSeq # NoSeq /\ exSeq < MaxSeqId
    /\ \E s \in UpdateSides :
        /\ _process_orderbook("update", LevelsDesc(s[1]), LevelsAsc(s[2]),
                              exSeq + 1, exSeq)
        /\ expBids' = Overlay(expBids, s[1])
        /\ expAsks' = Overlay(expAsks, s[2])
    /\ exSeq' = exSeq + 1
    /\ bookLast' = "update"
    /\ UNCHANGED <<streamOk, snapSeen, klineVars, supVars, llmVars, orchVars, gateVars, journalVars, cacheVars,
                   backVars, collVars>>

\* on_public_message: heartbeat, both sides empty, prevSeqId = seqId
BookHeartbeat ==
    /\ exSeq # NoSeq
    /\ _process_orderbook("update", <<>>, <<>>, exSeq, exSeq)
    /\ bookLast' = "heartbeat"
    /\ UNCHANGED <<exSeq, streamOk, snapSeen, expBids, expAsks, klineVars, supVars, llmVars, orchVars, gateVars, journalVars, cacheVars,
                   backVars, collVars>>

\* on_public_message: an update after a lost message (prevSeqId is not the
\* seqId of the message before it)
BookGapUpdate ==
    /\ exSeq # NoSeq /\ exSeq + 1 < MaxSeqId
    /\ \E s \in LoneSides :
        _process_orderbook("update", LevelsDesc(s[1]), LevelsAsc(s[2]),
                           exSeq + 2, exSeq + 1)
    /\ exSeq' = exSeq + 2
    /\ streamOk' = FALSE
    /\ bookLast' = "gap"
    /\ UNCHANGED <<expBids, expAsks, snapSeen, klineVars, supVars, llmVars, orchVars, gateVars, journalVars, cacheVars,
                   backVars, collVars>>

\* on_public_message: sequence reset, seqId < prevSeqId
BookResetUpdate ==
    /\ exSeq # NoSeq /\ exSeq > 1
    /\ \E s \in LoneSides, q \in 1..MaxSnapSeq :
        /\ q < exSeq
        /\ _process_orderbook("update", LevelsDesc(s[1]), LevelsAsc(s[2]), q, exSeq)
        /\ exSeq' = q
    /\ streamOk' = FALSE
    /\ bookLast' = "reset"
    /\ UNCHANGED <<expBids, expAsks, snapSeen, klineVars, supVars, llmVars, orchVars, gateVars, journalVars, cacheVars,
                   backVars, collVars>>

\* A new collector instance: __init__ clears the initialized flag and
\* start() clears the live book (clear_redis_orderbook).
BookNewInstance ==
    /\ orderbook_initialized' = FALSE
    /\ bookBids' = EmptyBook
    /\ bookAsks' = EmptyBook
    /\ lastSeqId' = NoSeq
    /\ streamOk' = FALSE
    /\ bookLast' = "start"
    /\ snapSeen' = FALSE
    /\ UNCHANGED <<exSeq, expBids, expAsks, klineVars, supVars, llmVars, orchVars, gateVars, journalVars, cacheVars,
                   backVars, collVars>>

BookInit ==
    /\ orderbook_initialized = FALSE
    /\ bookBids = EmptyBook
    /\ bookAsks = EmptyBook
    /\ lastSeqId = NoSeq
    /\ exSeq = NoSeq
    /\ streamOk = FALSE
    /\ expBids = Zero(BidPrices)
    /\ expAsks = Zero(AskPrices)
    /\ bookLast = "start"
    /\ snapSeen = FALSE

\* ------------------------------------------------------------------------
\* Klines of one (symbol, timeframe) stream
\* ------------------------------------------------------------------------
OpenTimes == 1..NumBars
Closes == {1, 2}
NoKline == [close |-> 0, confirmed |-> FALSE, present |-> FALSE]

\* DataManager.save_kline(inst_id, bar, kline_data): upsert by openTime; a
\* record stored with confirmed = true is frozen.
save_kline_replace(store, k) ==
    [store EXCEPT ![k.ts] = [close |-> k.close, confirmed |-> k.confirm,
                             present |-> TRUE]]

save_kline(store, k) ==
    IF store[k.ts].present /\ store[k.ts].confirmed
    THEN store
    ELSE [store EXCEPT ![k.ts] = [close |-> k.close, confirmed |-> k.confirm,
                                  present |-> TRUE]]

\* on_business_message: each kline of a candle message is submitted to the
\* worker pool (self.executor, 10 workers)
on_business_message ==
    /\ klineRecv < MaxKlineMsgs
    /\ \E t \in OpenTimes, c \in Closes, f \in BOOLEAN :
        klinePool' = klinePool \cup
            {[n |-> klineRecv + 1, ts |-> t, close |-> c, confirm |-> f]}
    /\ klineRecv' = klineRecv + 1
    /\ UNCHANGED <<klines, kline_cache, klineLast, klineDone, bookVars, supVars, llmVars, orchVars, gateVars, journalVars, cacheVars,
                   backVars, collVars>>

\* _process_kline, run by any free worker of the pool
_process_kline ==
    \E k \in klinePool :
        /\ kline_cache' = [ts |-> k.ts, close |-> k.close, confirm |-> k.confirm]
        /\ klines' = save_kline(klines, k)
        /\ klineLast' =
              IF klines[k.ts].present /\ klines[k.ts].confirmed
              THEN IF klines[k.ts].close # k.close \/ ~k.confirm
                   THEN "ignored" ELSE "same"
              ELSE "stored"
        /\ klinePool' = klinePool \ {k}
        /\ klineDone' = k.n
        /\ UNCHANGED <<klineRecv, bookVars, supVars, llmVars, orchVars, gateVars, journalVars, cacheVars,
                   backVars, collVars>>

KlineInit ==
    /\ klines = [t \in OpenTimes |-> NoKline]
    /\ kline_cache = [ts |-> 0, close |-> 0, confirm |-> FALSE]
    /\ klinePool = {}
    /\ klineRecv = 0
    /\ klineLast = "none"
    /\ klineDone = 0

\* ------------------------------------------------------------------------
\* Restart supervisor (main) and watchdog (_monitor_status)
\* ------------------------------------------------------------------------
DataTimeoutSeconds == 120   \* data_timeout_seconds
StatusInterval == 30        \* status_interval: period of the watchdog
NoTs == -1
NoExit == -1
\* Time is followed in steps of two watchdog periods, and ages are kept up
\* to the first value the watchdog cannot tell from larger ones.
TimeStep == 2 * StatusInterval
AgeCap == DataTimeoutSeconds + TimeStep
Ages == {a \in 0..AgeCap : a % TimeStep = 0}

Older(a) == IF a = NoTs THEN NoTs
            ELSE IF a + TimeStep > AgeCap THEN AgeCap ELSE a + TimeStep

MaxOf(S) == CHOOSE x \in S : \A y \in S : y <= x

\* _monitor_status, lines 1071-1073, 1081-1083, 1091-1093: a source counts
\* as timed out when it has a timestamp and its age exceeds the threshold
TimedOutUnrecorded(age) == age = NoTs \/ age > DataTimeoutSeconds

TimedOutAtOrOver(age) == age # NoTs /\ age >= DataTimeoutSeconds

TimedOutWrongUnit(age) == age # NoTs /\ age > DataTimeoutSeconds * 1000

TimedOut(age) == age # NoTs /\ age > DataTimeoutSeconds

\* main, line 1322: while restart_count <= max_restarts
MayStartOffByOne(rc, max_restarts) == rc <= max_restarts + 1

MayStart(rc, max_restarts) == rc <= max_restarts

\* main, line 1339: if collector.need_restart
RestartAlways(nr) == TRUE

RestartWanted(nr) == nr

\* StandaloneDataCollector.stop()
stop ==
    /\ is_running' = FALSE
    /\ tasks_alive' = FALSE
    /\ ws_open' = FALSE

\* main: the loop test, and the 5 s pause before every restart
MainLoopTest ==
    /\ supPc = "loop"
    /\ supPc' = IF MayStart(restart_count, MaxRestarts)
                THEN (IF restart_count > 0 THEN "sleep" ELSE "create")
                ELSE "after"
    /\ UNCHANGED <<restart_count, instances, is_running, need_restart,
                   tasks_alive, ws_open, exitCode, kline_age, trade_age,
                   book_age, silence, lastEnd, prevEnd, wdMax, wdQuiet, cleanEndAt, causes>>
    /\ UNCHANGED <<bookVars, klineVars, llmVars, orchVars, gateVars, journalVars, cacheVars,
                   backVars, collVars>>

\* main: StandaloneDataCollector(...) and collector.start() up to the
\* gather of the background tasks; start() clears the live book and trades
NewCollector ==
    /\ supPc \in {"sleep", "create"}
    /\ supPc' = "running"
    /\ instances' = instances + 1
    /\ is_running' = TRUE
    /\ need_restart' = FALSE
    /\ tasks_alive' = TRUE
    /\ ws_open' = TRUE
    /\ trade_age' = NoTs
    /\ book_age' = NoTs
    /\ silence' = 0
    /\ prevEnd' = lastEnd
    /\ lastEnd' = "none"
    /\ wdMax' = NoTs
    /\ wdQuiet' = FALSE
    /\ UNCHANGED <<restart_count, exitCode, kline_age, cleanEndAt, causes>>
    /\ UNCHANGED <<bookVars, klineVars, llmVars, orchVars, gateVars, journalVars, cacheVars,
                   backVars, collVars>>

\* An earlier run of the collector left a kline last-update in the cache
\* (start() clears only the book and the trades).
EarlierRun ==
    /\ supPc = "loop" /\ instances = 0 /\ kline_age = NoTs
    /\ \E a \in Ages : kline_age' = a
    /\ UNCHANGED <<restart_count, supPc, instances, is_running, need_restart,
                   tasks_alive, ws_open, exitCode, trade_age, book_age, silence,
                   lastEnd, prevEnd, wdMax, wdQuiet, cleanEndAt, causes>>
    /\ UNCHANGED <<bookVars, klineVars, llmVars, orchVars, gateVars, journalVars, cacheVars,
                   backVars, collVars>>

\* a kline, trade or book message reaches the running instance
Receiving == supPc = "running" /\ is_running /\ ws_open

KlineMsg ==
    /\ Receiving
    /\ kline_age' = 0
    /\ silence' = 0
    /\ UNCHANGED <<restart_count, supPc, instances, is_running, need_restart,
                   tasks_alive, ws_open, exitCode, trade_age, book_age,
                   lastEnd, prevEnd, wdMax, wdQuiet, cleanEndAt, causes>>
    /\ UNCHANGED <<bookVars, klineVars, llmVars, orchVars, gateVars, journalVars, cacheVars,
                   backVars, collVars>>

TradeMsg ==
    /\ Receiving
    /\ \E d \in {0, TimeStep} : trade_age' = d
    /\ silence' = 0
    /\ UNCHANGED <<restart_count, supPc, instances, is_running, need_restart,
                   tasks_alive, ws_open, exitCode, kline_age, book_age,
                   lastEnd, prevEnd, wdMax, wdQuiet, cleanEndAt, causes>>
    /\ UNCHANGED <<bookVars, klineVars, llmVars, orchVars, gateVars, journalVars, cacheVars,
                   backVars, collVars>>

BookMsg ==
    /\ Receiving
    /\ \E d \in {0, TimeStep} : book_age' = d
    /\ silence' = 0
    /\ UNCHANGED <<restart_count, supPc, instances, is_running, need_restart,
                   tasks_alive, ws_open, exitCode, kline_age, trade_age,
                   lastEnd, prevEnd, wdMax, wdQuiet, cleanEndAt, causes>>
    /\ UNCHANGED <<bookVars, klineVars, llmVars, orchVars, gateVars, journalVars, cacheVars,
                   backVars, collVars>>

\* TimeStep seconds pass
Tick ==
    /\ supPc # "exited"
    /\ kline_age' = Older(kline_age)
    /\ trade_age' = Older(trade_age)
    /\ book_age' = Older(book_age)
    /\ silence' = IF supPc = "running" /\ is_running THEN Older(silence) ELSE silence
    /\ UNCHANGED <<restart_count, supPc, instances, is_running, need_restart,
                   tasks_alive, ws_open, exitCode, lastEnd, prevEnd, wdMax, wdQuiet,
                   cleanEndAt, causes>>
    /\ UNCHANGED <<bookVars, klineVars, llmVars, orchVars, gateVars, journalVars, cacheVars,
                   backVars, collVars>>

\* no monitored source has a recorded timestamp
SilentUnrecorded ==
    kline_age = NoTs /\ trade_age = NoTs /\ book_age = NoTs

\* _monitor_status: one pass of the watchdog loop
_monitor_status ==
    /\ supPc = "running" /\ is_running
    /\ wdMax' = MaxOf({kline_age, trade_age, book_age})
    /\ wdQuiet' = (SilentUnrecorded /\ silence > DataTimeoutSeconds)
    /\ IF TimedOut(kline_age) \/ TimedOut(trade_age) \/ TimedOut(book_age)
       THEN /\ need_restart' = TRUE
            /\ stop
       ELSE UNCHANGED <<need_restart, is_running, tasks_alive, ws_open>>
    /\ UNCHANGED <<restart_count, supPc, instances, exitCode, kline_age,
                   trade_age, book_age, silence, lastEnd, prevEnd, cleanEndAt,
                   causes>>
    /\ UNCHANGED <<bookVars, klineVars, llmVars, orchVars, gateVars, journalVars, cacheVars,
                   backVars, collVars>>

\* start(): the background tasks end, or an exception is caught inside
\* start() (line 636); the finally clause stops the instance
StartEnds ==
    /\ supPc = "running" /\ is_running
    /\ stop
    /\ UNCHANGED <<restart_count, supPc, instances, need_restart, exitCode,
                   kline_age, trade_age, book_age, silence, lastEnd, prevEnd,
                   wdMax, wdQuiet, cleanEndAt, causes>>
    /\ UNCHANGED <<bookVars, klineVars, llmVars, orchVars, gateVars, journalVars, cacheVars,
                   backVars, collVars>>

\* main, lines 1336-1346: collector.start() has returned
StartReturns ==
    /\ supPc = "running" /\ ~is_running
    /\ IF RestartWanted(need_restart)
       THEN /\ restart_count' = restart_count + 1
            /\ supPc' = "loop"
            /\ causes' = causes \cup {"timeout"}
       ELSE /\ supPc' = "after"
            /\ UNCHANGED <<restart_count, causes>>
    /\ lastEnd' = IF need_restart THEN "timeout" ELSE "clean"
    /\ cleanEndAt' = IF need_restart THEN cleanEndAt ELSE instances
    /\ UNCHANGED <<instances, is_running, need_restart, tasks_alive, ws_open,
                   exitCode, kline_age, trade_age, book_age, silence, prevEnd,
                   wdMax, wdQuiet>>
    /\ UNCHANGED <<bookVars, klineVars, llmVars, orchVars, gateVars, journalVars, cacheVars,
                   backVars, collVars>>

\* main, lines 1348-1351: KeyboardInterrupt out of collector.start()
StartInterrupted ==
    /\ supPc = "running" /\ is_running
    /\ stop
    /\ supPc' = "after"
    /\ lastEnd' = "interrupt"
    /\ cleanEndAt' = instances
    /\ UNCHANGED <<restart_count, instances, need_restart, exitCode, kline_age,
                   trade_age, book_age, silence, prevEnd, wdMax, wdQuiet, causes>>
    /\ UNCHANGED <<bookVars, klineVars, llmVars, orchVars, gateVars, journalVars, cacheVars,
                   backVars, collVars>>

\* main, lines 1353-1367: any other exception out of collector.start()
StartRaises ==
    /\ supPc = "running" /\ is_running
    /\ restart_count' = restart_count + 1
    /\ stop
    /\ supPc' = IF restart_count + 1 <= MaxRestarts THEN "loop" ELSE "after"
    /\ lastEnd' = "exception"
    /\ causes' = causes \cup {"exception"}
    /\ UNCHANGED <<instances, need_restart, exitCode, kline_age, trade_age,
                   book_age, silence, prevEnd, wdMax, wdQuiet, cleanEndAt>>
    /\ UNCHANGED <<bookVars, klineVars, llmVars, orchVars, gateVars, journalVars, cacheVars,
                   backVars, collVars>>

\* _signal_handler: SIGINT or SIGTERM while an instance runs, stop() and
\* sys.exit(0)
_signal_handler ==
    /\ supPc = "running" /\ is_running
    /\ stop
    /\ exitCode' = 0
    /\ supPc' = "exited"
    /\ lastEnd' = "signal"
    /\ cleanEndAt' = instances
    /\ UNCHANGED <<restart_count, instances, need_restart, kline_age, trade_age,
                   book_age, silence, prevEnd, wdMax, wdQuiet, causes>>
    /\ UNCHANGED <<bookVars, klineVars, llmVars, orchVars, gateVars, journalVars, cacheVars,
                   backVars, collVars>>

\* main, lines 1374-1376: after the loop
MainAfterLoop ==
    /\ supPc = "after"
    /\ exitCode' = IF restart_count > MaxRestarts THEN 1 ELSE 0
    /\ supPc' = "exited"
    /\ UNCHANGED <<restart_count, instances, is_running, need_restart,
                   tasks_alive, ws_open, kline_age, trade_age, book_age,
                   silence, lastEnd, prevEnd, wdMax, wdQuiet, cleanEndAt, causes>>
    /\ UNCHANGED <<bookVars, klineVars, llmVars, orchVars, gateVars, journalVars, cacheVars,
                   backVars, collVars>>

SupInit ==
    /\ restart_count = 0
    /\ supPc = "loop"
    /\ instances = 0
    /\ is_running = FALSE
    /\ need_restart = FALSE
    /\ tasks_alive = FALSE
    /\ ws_open = FALSE
    /\ exitCode = NoExit
    /\ kline_age = NoTs
    /\ trade_age = NoTs
    /\ book_age = NoTs
    /\ silence = 0
    /\ lastEnd = "none"
    /\ prevEnd = "none"
    /\ wdMax = NoTs
    /\ wdQuiet = FALSE
    /\ cleanEndAt = 0
    /\ causes = {}

\* ------------------------------------------------------------------------
\* Streaming decision engine: ai_analysis and the early-decision probe
\* ------------------------------------------------------------------------
\* A response is a JSON object received as a sequence of tokens.  A token is
\* a complete top-level "key": value pair, named by its key, or a piece of
\* the reason field:
\*   "rkey"   the key "reason"          "ropen"  the colon and opening quote
\*   "rtext"  a piece of the prose      "rclose" the closing quote
\*   "end"    the closing brace of the object
\* A chunk of the stream carries one or more tokens.
NoVal == "none"            \* an absent signal; no early decision
NoNum == -1                \* an absent confidence or size
\* no adjust_data key
NoAdjust ==
    [present |-> FALSE, take_profit |-> <<>>, stop_loss |-> <<>>,
     price_ok |-> TRUE]
PreKeys == {"signal", "confidence", "size", "adjust_data"}
Signals == {"OPEN_LONG", "ADJUST_STOP", "HOLD"}
OpenSignals == {"OPEN_LONG", "OPEN_SHORT"}
ConfidenceVal == 72         \* the values of scenario S3 of the specification
SizeVal == 5
\* adjust_data: sizes of the take-profit and stop-loss layers, in text order
AdjustVal ==
    [present |-> TRUE, take_profit |-> <<3, 2>>, stop_loss |-> <<5>>,
     price_ok |-> TRUE]

Range(q) == {q[i] : i \in DOMAIN q}
KeySeqs ==
    {q \in UNION {[1..n -> PreKeys] : n \in 0..Cardinality(PreKeys)} :
        \A i, j \in DOMAIN q : i # j => q[i] # q[j]}
ReasonToks == <<"rkey", "ropen", "rtext", "rtext", "rclose">>

Responses ==
    {[signal |-> sg, toks |-> pre \o rs \o post \o en] :
        sg \in Signals, pre \in KeySeqs, rs \in {<<>>, ReasonToks},
        post \in {<<>>, <<"size">>}, en \in {<<>>, <<"end">>}}

WellFormed(r) ==
    /\ r.toks # <<>>
    /\ Cardinality({i \in DOMAIN r.toks : r.toks[i] = "size"}) <= 1
    /\ ("signal" \notin Range(r.toks)) => r.signal = "HOLD"

\* the value a top-level key has in the object made of the tokens q
TopVal(q, sg, key) ==
    CASE key = "signal" -> IF key \in Range(q) THEN sg ELSE NoVal
      [] key = "confidence" -> IF key \in Range(q) THEN ConfidenceVal ELSE NoNum
      [] key = "size" -> IF key \in Range(q) THEN SizeVal ELSE NoNum
      [] key = "adjust_data" -> IF key \in Range(q) THEN AdjustVal ELSE NoAdjust

\* json.loads of a well-formed object with the top-level pairs q
JsonDict(q, sg) ==
    [signal |-> TopVal(q, sg, "signal"),
     confidence |-> TopVal(q, sg, "confidence"),
     size |-> TopVal(q, sg, "size"),
     adjust_data |-> TopVal(q, sg, "adjust_data")]

\* _try_parse_early_decision, line 2115: the position of "reason"\s*:\s*"
ReasonStart(buf) ==
    IF \E i \in 1..(Len(buf) - 1) : buf[i] = "rkey" /\ buf[i + 1] = "ropen"
    THEN CHOOSE i \in 1..(Len(buf) - 1) :
            /\ buf[i] = "rkey" /\ buf[i + 1] = "ropen"
            /\ \A j \in 1..(i - 1) : ~(buf[j] = "rkey" /\ buf[j + 1] = "ropen")
    ELSE 0

\* lines 2122-2130: the text before "reason" gets a closing brace unless it
\* already ends with one, and is parsed strictly.  It ends with a brace
\* exactly when its last pair is adjust_data, and is then not closed.
StrictParses(pre) == pre = <<>> \/ pre[Len(pre)] # "adjust_data"

\* lines 2141-2187: the regex fallback takes the first match of each scalar
\* field in the text, whatever its nesting depth; adjust_data is not extracted
RECURSIVE FirstSizeInText(_)
FirstSizeInText(pre) ==
    IF pre = <<>> THEN NoNum
    ELSE IF Head(pre) = "size" THEN SizeVal
    ELSE IF Head(pre) = "adjust_data" THEN AdjustVal.take_profit[1]
    ELSE FirstSizeInText(Tail(pre))

RegexDict(pre, sg) ==
    [signal |-> TopVal(pre, sg, "signal"),
     confidence |-> TopVal(pre, sg, "confidence"),
     size |-> FirstSizeInText(pre),
     adjust_data |-> NoAdjust]

NoDecision == [signal |-> NoVal, confidence |-> NoNum, size |-> NoNum,
               adjust_data |-> NoAdjust]

\* lines 2132-2133 and 2183: the required fields
Required(d) == d.signal # NoVal /\ d.confidence # NoNum

_try_parse_early_decision(buf, sg) ==
    LET i == ReasonStart(buf)
        pre == SubSeq(buf, 1, i - 1)
        d == IF StrictParses(pre) THEN JsonDict(pre, sg) ELSE RegexDict(pre, sg)
    IN  IF "rkey" \notin Range(buf) \/ i = 0 THEN NoDecision
        ELSE IF Required(d) THEN d ELSE NoDecision

\* parse_ai_json_response
parse_ai_json_response(d) ==
    LET sig == IF d.signal = NoVal THEN "HOLD" ELSE d.signal
    IN  [signal |-> sig,
         confidence |-> IF d.confidence = NoNum THEN 50 ELSE d.confidence,
         size |-> IF sig \in OpenSignals THEN d.size ELSE NoNum,
         adjust_data |-> IF sig \in OpenSignals \cup {"ADJUST_STOP"}
                         THEN d.adjust_data ELSE NoAdjust]

\* json.loads of the complete buffer, lines 2046-2047
CompleteParses(toks) ==
    /\ toks # <<>> /\ toks[Len(toks)] = "end"
TopKeys(toks) == SelectSeq(toks, LAMBDA t : t \in PreKeys)

\* ai_analysis, lines 1995-2019: the LLM starts to stream a response
StartStream ==
    /\ llmPc = "idle"
    /\ \E r \in Responses : WellFormed(r) /\ llmResp' = r
    /\ llmPc' = "streaming"
    /\ UNCHANGED <<sent, early_decision_triggered, early_decision_data,
                   analysis, rcPool, submits, orchCalls, llmResult>>
    /\ UNCHANGED <<bookVars, klineVars, supVars, orchVars, gateVars, journalVars, cacheVars,
                   backVars, collVars>>

\* ai_analysis, lines 2021-2040: one chunk of the stream
StreamChunk ==
    /\ llmPc = "streaming"
    /\ \E n \in 1..(Len(llmResp.toks) - sent) :
        LET buf == SubSeq(llmResp.toks, 1, sent + n)
            early == _try_parse_early_decision(buf, llmResp.signal)
        IN  /\ sent' = sent + n
            /\ IF ~early_decision_triggered /\ early # NoDecision
               THEN /\ early_decision_triggered' = TRUE
                    /\ early_decision_data' = early
                    /\ analysis' = parse_ai_json_response(early)
                    /\ rcPool' = rcPool + 1
                    /\ submits' = submits + 1
               ELSE UNCHANGED <<early_decision_triggered, early_decision_data,
                                analysis, rcPool, submits>>
    /\ UNCHANGED <<llmPc, llmResp, orchCalls, llmResult>>
    /\ UNCHANGED <<bookVars, klineVars, supVars, orchVars, gateVars, journalVars, cacheVars,
                   backVars, collVars>>

\* The reason and the success flag of a returned dict are kept in llmResult
\* alone; analysis holds the fields that execute_trade reads.
NoReason == ""
ReasonText == "rtext"      \* the prose of the response's reason field
EarlyMarker == "stream parse failed, early decision used"   \* line 2065
ParseFailed == "JSON parse failed"                           \* line 2058
NotReturned ==
    [signal |-> NoVal, confidence |-> NoNum, size |-> NoNum,
     adjust_data |-> NoAdjust, reason |-> NoReason, success |-> FALSE]
\* lines 2055-2060: the dict returned when nothing could be parsed
HoldResult ==
    [signal |-> "HOLD", confidence |-> 0, size |-> NoNum,
     adjust_data |-> NoAdjust, reason |-> ParseFailed, success |-> FALSE]
\* parse_ai_json_response, lines 2232-2240: reason and success of the result
Returned(a, reason) ==
    [signal |-> a.signal, confidence |-> a.confidence, size |-> a.size,
     adjust_data |-> a.adjust_data, reason |-> reason, success |-> TRUE]

\* the complete response could not be parsed and the early decision is
\* returned in its place whether or not one was delivered
OnParseFailureEarly(triggered, data) ==
    Returned(parse_ai_json_response(data), EarlyMarker)

\* ai_analysis, lines 2051-2068: the complete response could not be parsed
OnParseFailure(triggered, data) ==
    IF ~triggered
    THEN HoldResult
    ELSE Returned(parse_ai_json_response(data), EarlyMarker)

\* ai_analysis, lines 2044-2080: the stream has ended
StreamEnd ==
    /\ llmPc = "streaming" /\ sent = Len(llmResp.toks)
    /\ llmPc' = "done"
    /\ IF CompleteParses(llmResp.toks)
       THEN /\ analysis' = parse_ai_json_response(
                              JsonDict(TopKeys(llmResp.toks), llmResp.signal))
            /\ llmResult' =
                  Returned(analysis',
                           IF "rkey" \in Range(llmResp.toks)
                           THEN ReasonText ELSE NoReason)
       ELSE /\ llmResult' = OnParseFailure(early_decision_triggered,
                                           early_decision_data)
            /\ analysis' = IF early_decision_triggered
                           THEN parse_ai_json_response(early_decision_data)
                           ELSE analysis
    /\ UNCHANGED <<llmResp, sent, early_decision_triggered, early_decision_data,
                   rcPool, submits, orchCalls>>
    /\ UNCHANGED <<bookVars, klineVars, supVars, orchVars, gateVars, journalVars, cacheVars,
                   backVars, collVars>>

\* run_conversation, started by a worker of executor_: it reads
\* self.analysis when it runs (lines 1807, 2565, 3236)
run_conversation ==
    /\ rcPool > 0
    /\ rcPool' = rcPool - 1
    /\ orchCalls' = orchCalls \cup
          {[signal |-> analysis.signal, confidence |-> analysis.confidence,
            size |-> analysis.size]}
    /\ UNCHANGED <<llmPc, llmResp, sent, early_decision_triggered,
                   early_decision_data, analysis, submits, llmResult>>
    /\ UNCHANGED <<bookVars, klineVars, supVars, orchVars, gateVars, journalVars, cacheVars,
                   backVars, collVars>>

LlmInit ==
    /\ llmPc = "idle"
    /\ llmResp = [signal |-> "HOLD", toks |-> <<>>]
    /\ sent = 0
    /\ early_decision_triggered = FALSE
    /\ early_decision_data = NoDecision
    /\ analysis = NoDecision
    /\ rcPool = 0
    /\ submits = 0
    /\ orchCalls = {}
    /\ llmResult = NotReturned

\* ------------------------------------------------------------------------
\* Order orchestrator: execute_trade, execute_open, execute_adjust_stop,
\* _apply_adjust_data
\* ------------------------------------------------------------------------
\* Sizes are counted in units of 0.001 contract, so that the tolerance of
\* validate_adjust_data (0.001) is one unit.  Layer prices are positive and
\* play no part in the sums: a layer is its size, and the price of the
\* i-th layer of a plan is named by i.
Tolerance == 1
Sides == {"long", "short"}
minSz == 4                \* the instrument's smallest order size
OrderSizes == {2, 4}
NoInfo == [present |-> FALSE, minSz |-> 0]
InstrumentInfos == {NoInfo, [present |-> TRUE, minSz |-> minSz]}
MaxDecisions == 2         \* decisions taken up by execute_trade in one run
MaxPosition == 8          \* the opening orders stop at this position size
TakeProfits == {<<>>, <<3, 2>>}
StopLosses == {<<>>, <<4>>, <<2>>}
\* Plans that validate_adjust_data refuses whatever the size: a layer whose
\* size is missing or not positive (it counts 0 in the sum), and a layer
\* whose price is missing or not positive (price_ok = FALSE).
DefectivePlans ==
    {[present |-> TRUE, take_profit |-> <<4, 0>>, stop_loss |-> <<>>,
      price_ok |-> TRUE],
     [present |-> TRUE, take_profit |-> <<>>, stop_loss |-> <<4>>,
      price_ok |-> FALSE]}
AdjustPlans ==
    {NoAdjust} \cup DefectivePlans \cup
    {[present |-> TRUE, take_profit |-> tp, stop_loss |-> sl,
      price_ok |-> TRUE] :
        tp \in TakeProfits, sl \in StopLosses}
\* the plans that come with a decision without a size or with a size below
\* minSz: no plan, or stop-loss layers alone
StopOnlyPlans == {ad \in AdjustPlans : ad.take_profit = <<>> /\ ad.price_ok}
CloseSignals == {"CLOSE_LONG", "CLOSE_SHORT"}
HoldSignals == {"HOLD", "HOLD_LONG", "HOLD_SHORT"}
Decisions ==
    {[signal |-> sg, size |-> sz, adjust_data |-> ad] :
        sg \in {"OPEN_LONG", "OPEN_SHORT"},
        sz \in {sz \in OrderSizes : sz >= minSz}, ad \in AdjustPlans}
    \cup {[signal |-> sg, size |-> sz, adjust_data |-> ad] :
            sg \in {"OPEN_LONG", "OPEN_SHORT"},
            sz \in {NoNum} \cup {sz \in OrderSizes : sz < minSz},
            ad \in StopOnlyPlans}
    \cup {[signal |-> "ADJUST_STOP", size |-> NoNum, adjust_data |-> ad] :
            ad \in AdjustPlans}
    \cup {[signal |-> sg, size |-> NoNum, adjust_data |-> NoAdjust] :
            sg \in CloseSignals \cup HoldSignals}
NoTrade == [signal |-> NoVal, size |-> NoNum, adjust_data |-> NoAdjust]
NoApply == [side |-> "none", plan |-> NoAdjust, orders |-> {}, clean |-> FALSE]

RECURSIVE SumSeq(_)
SumSeq(q) == IF q = <<>> THEN 0 ELSE Head(q) + SumSeq(Tail(q))
Abs(x) == IF x < 0 THEN -x ELSE x

\* validate_adjust_data, lines 2399-2409: a side's layers sum to total_size
SumOk(layers, total) ==
    layers = <<>> \/ ~(Abs(SumSeq(layers) - total) > Tolerance)

validate_adjust_data_sums(adjust_data, total_size) ==
    /\ ~(adjust_data.take_profit = <<>> /\ adjust_data.stop_loss = <<>>)
    /\ SumOk(adjust_data.take_profit, total_size)
    /\ SumOk(adjust_data.stop_loss, total_size)

validate_adjust_data(adjust_data, total_size) ==
    /\ ~(adjust_data.take_profit = <<>> /\ adjust_data.stop_loss = <<>>)
    /\ SumOk(adjust_data.take_profit, total_size)
    /\ SumOk(adjust_data.stop_loss, total_size)
    /\ \A i \in DOMAIN adjust_data.take_profit : adjust_data.take_profit[i] > 0
    /\ \A i \in DOMAIN adjust_data.stop_loss : adjust_data.stop_loss[i] > 0
    /\ adjust_data.price_ok

\* the steps of _apply_adjust_data and _cancel_all_position_orders in the
\* order of the code: lines 2478-2492, 2494-2511, 2456-2459, 2461-2464
StepAfterSwapped(step, ad) ==
    CASE step = "list_limit" -> "cancel_limit"
      [] step = "cancel_limit" ->
            IF ad.take_profit # <<>> THEN "place_tp" ELSE "list_algo"
      [] step = "place_tp" -> "list_algo"
      [] step = "list_algo" -> "cancel_algo"
      [] step = "cancel_algo" ->
            IF ad.stop_loss # <<>> THEN "place_sl" ELSE "applied"
      [] step = "place_sl" -> "applied"

StepAfter(step, ad) ==
    CASE step = "list_limit" -> "cancel_limit"
      [] step = "cancel_limit" -> "list_algo"
      [] step = "list_algo" -> "cancel_algo"
      [] step = "cancel_algo" ->
            IF ad.take_profit # <<>> THEN "place_tp"
            ELSE IF ad.stop_loss # <<>> THEN "place_sl" ELSE "applied"
      [] step = "place_tp" ->
            IF ad.stop_loss # <<>> THEN "place_sl" ELSE "applied"
      [] step = "place_sl" -> "applied"

\* the positions that the cache holds: those with a size other than 0
\* (update_position_cache, line 660)
Held(cache) == {sd \in Sides : cache[sd] # 0}
OpenSide(signal) == IF signal = "OPEN_LONG" THEN "long" ELSE "short"
CloseSide(signal) == IF signal = "CLOSE_LONG" THEN "long" ELSE "short"
\* the live orders of one kind, side, size and price
SameOrders(kind, sd, sz, px) ==
    {o \in liveOrders : /\ o.kind = kind
                        /\ o.posSide = sd
                        /\ o.size = sz
                        /\ o.px = px}

\* a new order as the exchange lists it.  The exchange gives every order an
\* id of its own (ordId, algoId); here the orders of one kind, side, size
\* and price are numbered 1, 2, ... and differ in nothing else.
Order(kind, sd, sz, px) ==
    [kind |-> kind, posSide |-> sd, size |-> sz, px |-> px,
     nth |-> Cardinality(SameOrders(kind, sd, sz, px)) + 1]

\* the live order that a cancel request for o takes away: the orders like o
\* are interchangeable, and the last of them goes
Cancelled(o) ==
    CHOOSE x \in SameOrders(o.kind, o.posSide, o.size, o.px) :
        x.nth = Cardinality(SameOrders(o.kind, o.posSide, o.size, o.px))

\* the listed orders of the kind, whatever their posSide
PositionOrdersAnySide(kind, sd) ==
    {o \in liveOrders : o.kind = kind}

\* the listed orders of the kind whose posSide is another position's
PositionOrdersOther(kind, sd) ==
    {o \in liveOrders : o.kind = kind /\ o.posSide # sd}

\* _cancel_all_position_orders, lines 2484-2486 and 2502-2504: the listed
\* orders of the kind whose posSide is the position's
PositionOrders(kind, sd) ==
    {o \in liveOrders : o.kind = kind /\ o.posSide = sd}

Call(name, sd, sz, px) ==
    [call |-> name, posSide |-> sd, size |-> sz, px |-> px,
     posAt |-> positions[sd]]

\* execute_open, lines 3237-3247: the size of the opening order is the
\* decision's, raised to minSz when the instrument's data are cached
OpenSize(d) ==
    IF instrument_info.present /\ d.size < instrument_info.minSz
    THEN instrument_info.minSz
    ELSE d.size

\* the calls and the state that end when execute_trade returns or raises
OrchIdle ==
    /\ orchPc' = "idle"
    /\ decision' = NoTrade
    /\ applyQueue' = <<>>
    /\ toCancel' = {}
    /\ layerIdx' = 1
    /\ apiLog' = <<>>
    /\ liveAtStart' = {}
    /\ cancelFailed' = FALSE
    /\ applyClean' = TRUE

\* _apply_adjust_data is entered for pos_side sd, lines 2442-2454
StartApply(sd) ==
    /\ applySide' = sd
    /\ orchPc' = "list_limit"
    /\ toCancel' = {}
    /\ layerIdx' = 1
    /\ apiLog' = <<>>
    /\ liveAtStart' = {o \in liveOrders : o.posSide = sd}
    /\ cancelFailed' = FALSE
    /\ applyClean' = TRUE

\* run_conversation, line 1809, would call execute_trade whatever
\* auto_execute is
ShouldExecuteAlways(signal) == signal \notin HoldSignals

\* run_conversation, line 1809: execute_trade is called for the decision
ShouldExecute(signal) == auto_execute /\ signal \notin HoldSignals

\* run_conversation (lines 1807-1821) and execute_trade with the first, pure
\* part of execute_adjust_stop (lines 2692-2702) or of execute_open (lines
\* 3236-3271).  A signal that is neither ADJUST_STOP nor OPEN_LONG/OPEN_SHORT
\* falls through both tests and execute_trade returns.
execute_trade ==
    /\ orchPc = "idle"
    /\ \E d \in Decisions :
        IF ~ShouldExecute(d.signal)
        THEN /\ passedOver' = TRUE
             /\ UNCHANGED <<positions, cached_positions, liveOrders, orchPc,
                            decision, orchCtx, applyQueue, applySide, toCancel,
                            layerIdx, apiLog, liveAtStart, cancelFailed,
                            applyClean, prevApply, dispatched, closeAsked>>
        ELSE IF d.signal \in CloseSignals
        THEN /\ dispatched < MaxDecisions
             /\ dispatched' = dispatched + 1
             /\ passedOver' = FALSE
             /\ closeAsked' =
                  IF positions[CloseSide(d.signal)] # 0
                     /\ CloseSide(d.signal) \in Held(cached_positions)
                  THEN CloseSide(d.signal) ELSE "none"
             /\ UNCHANGED <<positions, cached_positions, liveOrders, orchPc,
                            decision, orchCtx, applyQueue, applySide, toCancel,
                            layerIdx, apiLog, liveAtStart, cancelFailed,
                            applyClean>>
             /\ prevApply' = NoApply
        ELSE IF d.signal = "ADJUST_STOP"
        THEN IF ~d.adjust_data.present \/ Held(cached_positions) = {}
             THEN /\ passedOver' = FALSE
                  /\ UNCHANGED <<positions, cached_positions, liveOrders,
                                 orchPc, decision, orchCtx, applyQueue,
                                 applySide, toCancel, layerIdx, apiLog,
                                 liveAtStart, cancelFailed, applyClean,
                                 prevApply, dispatched, closeAsked>>
             ELSE /\ \E q \in [1..Cardinality(Held(cached_positions))
                                    -> Held(cached_positions)] :
                        /\ \A i, j \in DOMAIN q : i # j => q[i] # q[j]
                        /\ applyQueue' =
                             [i \in DOMAIN q |->
                                [posSide |-> q[i], pos |-> cached_positions[q[i]]]]
                  /\ dispatched < MaxDecisions
                  /\ dispatched' = dispatched + 1
                  /\ closeAsked' = "none"
                  /\ passedOver' = FALSE
                  /\ decision' = d
                  /\ orchCtx' = "adjust"
                  /\ orchPc' = "adjust_loop"
                  /\ prevApply' = IF prevApply.plan = d.adjust_data
                                  THEN prevApply ELSE NoApply
                  /\ UNCHANGED <<positions, cached_positions, liveOrders,
                                 applySide, toCancel, layerIdx, apiLog,
                                 liveAtStart, cancelFailed, applyClean>>
        ELSE IF d.size = NoNum
                \/ (d.adjust_data.present
                      /\ ~validate_adjust_data(d.adjust_data, OpenSize(d)))
             THEN /\ passedOver' = FALSE
                  /\ UNCHANGED <<positions, cached_positions, liveOrders,
                                 orchPc, decision, orchCtx, applyQueue,
                                 applySide, toCancel, layerIdx, apiLog,
                                 liveAtStart, cancelFailed, applyClean,
                                 prevApply, dispatched, closeAsked>>
             ELSE /\ positions[OpenSide(d.signal)] + OpenSize(d) <= MaxPosition
                  /\ dispatched < MaxDecisions
                  /\ dispatched' = dispatched + 1
                  /\ closeAsked' = "none"
                  /\ passedOver' = FALSE
                  /\ decision' = d
                  /\ orchCtx' = "open"
                  /\ applySide' = OpenSide(d.signal)
                  /\ orchPc' = "open"
                  /\ prevApply' = NoApply
                  /\ UNCHANGED <<positions, cached_positions, liveOrders,
                                 applyQueue, toCancel, layerIdx, apiLog,
                                 liveAtStart, cancelFailed, applyClean>>
    /\ UNCHANGED <<auto_execute, instrument_info>>
    /\ UNCHANGED <<bookVars, klineVars, supVars, llmVars, gateVars, journalVars, cacheVars,
                   backVars, collVars>>

\* execute_adjust_stop, lines 2704-2724: the loop over the cached positions
execute_adjust_stop ==
    /\ orchPc = "adjust_loop"
    /\ IF applyQueue = <<>>
       THEN OrchIdle /\ UNCHANGED applySide
       ELSE /\ applyQueue' = Tail(applyQueue)
            /\ IF validate_adjust_data(decision.adjust_data, Head(applyQueue).pos)
               THEN StartApply(Head(applyQueue).posSide)
               ELSE UNCHANGED <<orchPc, applySide, toCancel, layerIdx, apiLog,
                                liveAtStart, cancelFailed, applyClean>>
            /\ UNCHANGED decision
    /\ UNCHANGED <<positions, cached_positions, liveOrders, orchCtx, dispatched, closeAsked, prevApply>>
    /\ UNCHANGED <<auto_execute, instrument_info, passedOver>>
    /\ UNCHANGED <<bookVars, klineVars, supVars, llmVars, gateVars, journalVars, cacheVars,
                   backVars, collVars>>

\* execute_open, lines 3273-3285 and 3317-3318: the opening order
smart_open_position ==
    /\ orchPc = "open"
    /\ \E success \in BOOLEAN :
        IF success
        THEN /\ positions' = [positions EXCEPT ![applySide] = @ + OpenSize(decision)]
             /\ IF decision.adjust_data.present
                THEN /\ orchPc' = "sleep"
                     /\ UNCHANGED <<decision, applyQueue, toCancel, layerIdx,
                                    apiLog, liveAtStart, cancelFailed, applyClean>>
                ELSE OrchIdle
        ELSE OrchIdle /\ UNCHANGED positions
    /\ UNCHANGED <<cached_positions, liveOrders, orchCtx, applySide, dispatched, closeAsked, prevApply>>
    /\ UNCHANGED <<auto_execute, instrument_info, passedOver>>
    /\ UNCHANGED <<bookVars, klineVars, supVars, llmVars, gateVars, journalVars, cacheVars,
                   backVars, collVars>>

\* execute_open, lines 3287-3300: after the sleep of 30 s the position is
\* looked up once in the cache
execute_open ==
    /\ orchPc = "sleep"
    /\ IF applySide \in Held(cached_positions)
       THEN StartApply(applySide) /\ UNCHANGED <<decision, applyQueue>>
       ELSE OrchIdle /\ UNCHANGED applySide
    /\ UNCHANGED <<positions, cached_positions, liveOrders, orchCtx, dispatched, closeAsked, prevApply>>
    /\ UNCHANGED <<auto_execute, instrument_info, passedOver>>
    /\ UNCHANGED <<bookVars, klineVars, supVars, llmVars, gateVars, journalVars, cacheVars,
                   backVars, collVars>>

\* a listing request of _cancel_all_position_orders: it answers with the
\* live orders (code '0'), answers with an error code, or raises; the last
\* two end this half of the cancelling (lines 2484, 2491 and 2500, 2510)
ListOrders(listStep, cancelStep, kind) ==
    /\ orchPc = listStep
    /\ apiLog' = Append(apiLog, Call(listStep, applySide, 0, 0))
    /\ \E res \in {"ok", "error", "raise"} :
        /\ toCancel' =
             IF res = "ok"
             THEN PositionOrders(kind, applySide)
             ELSE {}
        /\ cancelFailed' = (cancelFailed \/ res # "ok")
        /\ applyClean' = (applyClean /\ res = "ok")
    /\ orchPc' = IF toCancel' = {}
                 THEN StepAfter(cancelStep, decision.adjust_data)
                 ELSE StepAfter(listStep, decision.adjust_data)
    /\ UNCHANGED <<positions, cached_positions, liveOrders, decision, orchCtx,
                   applyQueue, applySide, layerIdx, liveAtStart, dispatched, closeAsked, prevApply>>
    /\ UNCHANGED <<auto_execute, instrument_info, passedOver>>
    /\ UNCHANGED <<bookVars, klineVars, supVars, llmVars, gateVars, journalVars, cacheVars,
                   backVars, collVars>>

\* a cancel request for one listed order: the exchange cancels it, or
\* refuses (the answer is not looked at), or the request raises, which ends
\* the loop.  The listed orders are taken in one order: as every request may
\* be refused, the orders that stay live do not depend on it.
CancelOne(cancelStep) ==
    /\ orchPc = cancelStep
    /\ \E o \in {CHOOSE x \in toCancel : TRUE},
          res \in {"ok", "rejected", "raise"} :
        /\ apiLog' = Append(apiLog, Call(cancelStep, o.posSide, o.size, o.px))
        /\ liveOrders' = IF res = "ok"
                         THEN liveOrders \ {Cancelled(o)}
                         ELSE liveOrders
        /\ toCancel' = IF res = "raise" THEN {} ELSE toCancel \ {o}
        /\ cancelFailed' = (cancelFailed \/ res = "raise")
        /\ applyClean' = (applyClean /\ res = "ok")
    /\ orchPc' = IF toCancel' = {}
                 THEN StepAfter(cancelStep, decision.adjust_data)
                 ELSE cancelStep
    /\ UNCHANGED <<positions, cached_positions, decision, orchCtx, applyQueue,
                   applySide, layerIdx, liveAtStart, dispatched, closeAsked, prevApply>>
    /\ UNCHANGED <<auto_execute, instrument_info, passedOver>>
    /\ UNCHANGED <<bookVars, klineVars, supVars, llmVars, gateVars, journalVars, cacheVars,
                   backVars, collVars>>

\* _cancel_all_position_orders, lines 2478-2492
get_orders_pending ==
    /\ orchPc = "list_limit"
    /\ ListOrders("list_limit", "cancel_limit", "limit")
cancel_order ==
    /\ orchPc = "cancel_limit"
    /\ CancelOne("cancel_limit")
\* _cancel_all_position_orders, lines 2494-2511
get_algo_order_list ==
    /\ orchPc = "list_algo"
    /\ ListOrders("list_algo", "cancel_algo", "conditional")
cancel_algo_order ==
    /\ orchPc = "cancel_algo"
    /\ CancelOne("cancel_algo")

\* one layer of _create_take_profit_layers or _create_stop_loss_layers: the
\* exchange accepts the order, or refuses it (logged, the loop goes on), or
\* the request raises, which ends execute_trade (caught at line 1813)
PlaceLayer(placeStep, kind, layers) ==
    /\ orchPc = placeStep
    /\ \E res \in {"ok", "rejected", "raise"} :
        /\ liveOrders' =
             IF res = "ok"
             THEN liveOrders \cup
                    {Order(kind, applySide, layers[layerIdx], layerIdx)}
             ELSE liveOrders
        /\ IF res = "raise"
           THEN OrchIdle
           ELSE /\ apiLog' = Append(apiLog,
                                Call(placeStep, applySide,
                                     layers[layerIdx], layerIdx))
                /\ layerIdx' = IF layerIdx = Len(layers) THEN 1 ELSE layerIdx + 1
                /\ orchPc' = IF layerIdx = Len(layers)
                             THEN StepAfter(placeStep, decision.adjust_data)
                             ELSE placeStep
                /\ applyClean' = (applyClean /\ res = "ok")
                /\ UNCHANGED <<decision, applyQueue, toCancel, liveAtStart,
                               cancelFailed>>
    /\ UNCHANGED <<positions, cached_positions, orchCtx, applySide, dispatched, closeAsked, prevApply>>
    /\ UNCHANGED <<auto_execute, instrument_info, passedOver>>
    /\ UNCHANGED <<bookVars, klineVars, supVars, llmVars, gateVars, journalVars, cacheVars,
                   backVars, collVars>>

\* lines 2513-2536
_create_take_profit_layers ==
    /\ orchPc = "place_tp"
    /\ PlaceLayer("place_tp", "limit", decision.adjust_data.take_profit)
\* lines 2538-2562
_create_stop_loss_layers ==
    /\ orchPc = "place_sl"
    /\ PlaceLayer("place_sl", "conditional", decision.adjust_data.stop_loss)

\* _apply_adjust_data returns (lines 2466-2470) to execute_open, which ends,
\* or to the loop of execute_adjust_stop
_apply_adjust_data ==
    /\ orchPc = "applied"
    /\ IF orchCtx = "open"
       THEN OrchIdle
       ELSE /\ orchPc' = "adjust_loop"
            /\ apiLog' = <<>>
            /\ liveAtStart' = {}
            /\ cancelFailed' = FALSE
            /\ applyClean' = TRUE
            /\ UNCHANGED <<decision, applyQueue, toCancel, layerIdx>>
    /\ prevApply' = [side |-> applySide,
                     plan |-> decision.adjust_data,
                     orders |-> {o \in liveOrders : o.posSide = applySide},
                     clean |-> applyClean]
    /\ UNCHANGED <<positions, cached_positions, liveOrders, orchCtx, applySide,
                   dispatched, closeAsked>>
    /\ UNCHANGED <<auto_execute, instrument_info, passedOver>>
    /\ UNCHANGED <<bookVars, klineVars, supVars, llmVars, gateVars, journalVars, cacheVars,
                   backVars, collVars>>

\* update_position_cache, lines 653-688: a successful refresh
update_position_cache ==
    /\ cached_positions # positions
    /\ cached_positions' = positions
    /\ UNCHANGED <<positions, liveOrders, orchPc, decision, orchCtx, applyQueue,
                   applySide, toCancel, layerIdx, apiLog, liveAtStart,
                   cancelFailed, applyClean, dispatched, closeAsked, prevApply>>
    /\ UNCHANGED <<auto_execute, instrument_info, passedOver>>
    /\ UNCHANGED <<bookVars, klineVars, supVars, llmVars, gateVars, journalVars, cacheVars,
                   backVars, collVars>>

\* __init__, lines 37-251: auto_execute is the caller's; the instrument's
\* data are fetched once, and when the fetch fails instrument_info stays None
get_instrument_info ==
    /\ orchPc = "new"
    /\ \E flag \in BOOLEAN : auto_execute' = flag
    /\ \E info \in InstrumentInfos : instrument_info' = info
    /\ orchPc' = "idle"
    /\ UNCHANGED <<positions, cached_positions, liveOrders, decision, orchCtx,
                   applyQueue, applySide, toCancel, layerIdx, apiLog,
                   liveAtStart, cancelFailed, applyClean, prevApply,
                   dispatched, closeAsked, passedOver>>
    /\ UNCHANGED <<bookVars, klineVars, supVars, llmVars, gateVars, journalVars, cacheVars,
                   backVars, collVars>>

OrchInit ==
    /\ auto_execute = FALSE
    /\ instrument_info = NoInfo
    /\ positions = [sd \in Sides |-> 0]
    /\ cached_positions = [sd \in Sides |-> 0]
    /\ liveOrders = {}
    /\ orchPc = "new"
    /\ decision = NoTrade
    /\ orchCtx = "open"
    /\ applyQueue = <<>>
    /\ applySide = "long"
    /\ toCancel = {}
    /\ layerIdx = 1
    /\ apiLog = <<>>
    /\ liveAtStart = {}
    /\ cancelFailed = FALSE
    /\ applyClean = TRUE
    /\ prevApply = NoApply
    /\ dispatched = 0
    /\ closeAsked = "none"
    /\ passedOver = FALSE

\* ------------------------------------------------------------------------
\* Analysis cycle: run_analysis and check_data_freshness
\* ------------------------------------------------------------------------
data_freshness_threshold == 300
\* the ages a timestamp can have when the gate looks at it: none recorded,
\* exactly the threshold, one second more
GateAges == {NoTs, data_freshness_threshold, data_freshness_threshold + 1}

\* features: short_term is whether the short-term features are there,
\* orderbook_ts the age of orderbook_raw.timestamp (NoTs: no orderbook_raw
\* or no timestamp in it), trades whether the trade features are non-empty
FeatureSets ==
    [short_term : BOOLEAN, orderbook_ts : GateAges, trades : BOOLEAN]
NoFeatures == [short_term |-> FALSE, orderbook_ts |-> NoTs, trades |-> FALSE]

LagsLoose(age) == age # NoTs /\ age > data_freshness_threshold + 1

\* lines 1713, 1730, 1744: lag_seconds > self.data_freshness_threshold
Lags(age) == age # NoTs /\ age > data_freshness_threshold

\* check_data_freshness: the issues it collects
Issues(f, kl, pr) ==
    (IF kl # NoTs
     THEN (IF Lags(kl) THEN {"kline_lag"} ELSE {})
     ELSE {"kline_none"})
    \cup (IF Lags(f.orderbook_ts) THEN {"orderbook_lag"} ELSE {})
    \cup (IF f.trades /\ Lags(pr) THEN {"pressure_lag"} ELSE {})

check_data_freshness(f, kl, pr) ==
    IF Issues(f, kl, pr) # {}
    THEN [is_fresh |-> FALSE, prefix |-> "data_lag", issues |-> Issues(f, kl, pr)]
    ELSE [is_fresh |-> TRUE, prefix |-> "passed", issues |-> {}]

NoResult == [signal |-> NoVal, success |-> TRUE, prefix |-> NoVal, issues |-> {}]

\* run_analysis, line 1772: the features of the cycle are extracted; the
\* store holds a kline last-update and a pressure row of some age
extract_dual_timeframe_features ==
    /\ gatePc = "idle"
    /\ features' \in FeatureSets
    /\ kline_last_update' \in GateAges
    /\ pressure_ts' \in GateAges
    /\ gatePc' = "extracted"
    /\ UNCHANGED <<gateResult, llmCalled, orchCalled>>
    /\ UNCHANGED <<bookVars, klineVars, supVars, llmVars, orchVars, journalVars, cacheVars,
                   backVars, collVars>>

\* run_analysis, lines 1774-1783
run_analysis ==
    /\ gatePc = "extracted"
    /\ LET fr == check_data_freshness(features, kline_last_update, pressure_ts)
       IN  IF ~features.short_term
           THEN /\ gateResult' = [signal |-> "HOLD", success |-> FALSE,
                                  prefix |-> "insufficient", issues |-> {}]
                /\ gatePc' = "returned"
           ELSE IF ~fr.is_fresh
           THEN /\ gateResult' = [signal |-> "HOLD", success |-> FALSE,
                                  prefix |-> fr.prefix, issues |-> fr.issues]
                /\ gatePc' = "returned"
           ELSE /\ gatePc' = "ai_analysis"
                /\ UNCHANGED gateResult
    /\ UNCHANGED <<features, kline_last_update, pressure_ts, llmCalled, orchCalled>>
    /\ UNCHANGED <<bookVars, klineVars, supVars, llmVars, orchVars, journalVars, cacheVars,
                   backVars, collVars>>

\* run_analysis, lines 1794-1796: the LLM is called; the stream may hand an
\* early decision to run_conversation (line 2036)
ai_analysis ==
    /\ gatePc = "ai_analysis"
    /\ llmCalled' = TRUE
    /\ orchCalled' \in BOOLEAN
    /\ gatePc' = "returned"
    /\ UNCHANGED <<features, kline_last_update, pressure_ts, gateResult>>
    /\ UNCHANGED <<bookVars, klineVars, supVars, llmVars, orchVars, journalVars, cacheVars,
                   backVars, collVars>>

\* run_continuous: the next cycle
NextCycle ==
    /\ gatePc = "returned"
    /\ gatePc' = "idle"
    /\ features' = NoFeatures
    /\ kline_last_update' = NoTs
    /\ pressure_ts' = NoTs
    /\ gateResult' = NoResult
    /\ llmCalled' = FALSE
    /\ orchCalled' = FALSE
    /\ UNCHANGED <<bookVars, klineVars, supVars, llmVars, orchVars, journalVars, cacheVars,
                   backVars, collVars>>

GateInit ==
    /\ gatePc = "idle"
    /\ features = NoFeatures
    /\ kline_last_update = NoTs
    /\ pressure_ts = NoTs
    /\ gateResult = NoResult
    /\ llmCalled = FALSE
    /\ orchCalled = FALSE

\* ---------------------------------------------------------------------------
\* Conversation records and the decision journal (enhanced_trading.py)
\* ---------------------------------------------------------------------------

HistoryLimit == 10
MaxSaves == 2
NoConv == 0
LoadedLengths == {0, 10}

LastN(s, n) == IF Len(s) > n THEN SubSeq(s, Len(s) - n + 1, Len(s)) ELSE s

OldEntries(n) == [i \in 1..n |-> 0]

\* A save_task thread. history_to_save is either the list object that
\* self.ai_decision_history referred to when it was picked (by_ref) or a copy.
NewTask(call, is_executed) ==
    [call |-> call, is_executed |-> is_executed, pc |-> "begin",
     sliced |-> <<>>, by_ref |-> FALSE, to_save |-> <<>>]

DoneTask ==
    [call |-> 0, is_executed |-> FALSE, pc |-> "done",
     sliced |-> <<>>, by_ref |-> FALSE, to_save |-> <<>>]

HasMetadata == llmPhase \in {"meta", "saved"}

HasReason == llmPhase \in {"parsed", "meta", "saved"}

Unsaved == IF llmPhase \in {"early", "parsed", "meta"} THEN 1 ELSE 0

\* _load_decision_history: the file is created empty when missing; the last
\* HistoryLimit entries are loaded, the file itself is left as it is.
_load_decision_history ==
    /\ jPc = "startup"
    /\ \E n \in LoadedLengths :
        /\ historyFile' = OldEntries(n)
        /\ ai_decision_history' = LastN(OldEntries(n), HistoryLimit)
    /\ jPc' = "running"
    /\ UNCHANGED <<current_conversation_id, conversations, saveTasks,
                   llmCalls, reported, llmPhase, orchFor>>
    /\ UNCHANGED <<bookVars, klineVars, supVars, llmVars, orchVars, gateVars, cacheVars,
                   backVars, collVars>>

\* ai_analysis, early decision: self.analysis becomes the early decision (no
\* reason, no metadata) and run_conversation is submitted to the executor.
EarlyDecision ==
    /\ jPc = "running"
    /\ llmPhase \in {"idle", "saved"}
    /\ orchFor = 0
    /\ Len(saveTasks) < MaxSaves
    /\ llmCalls' = llmCalls + 1
    /\ llmPhase' = "early"
    /\ orchFor' = llmCalls + 1
    /\ UNCHANGED <<jPc, ai_decision_history, historyFile,
                   current_conversation_id, conversations, saveTasks, reported>>
    /\ UNCHANGED <<bookVars, klineVars, supVars, llmVars, orchVars, gateVars, cacheVars,
                   backVars, collVars>>

\* ai_analysis, end of the stream: self.analysis becomes the parsed response.
FinalParse ==
    /\ jPc = "running"
    /\ \/ /\ llmPhase = "early"
          /\ UNCHANGED llmCalls
       \/ /\ llmPhase \in {"idle", "saved"}
          /\ orchFor = 0
          /\ Len(saveTasks) < MaxSaves
          /\ llmCalls' = llmCalls + 1
    /\ llmPhase' = "parsed"
    /\ UNCHANGED <<jPc, ai_decision_history, historyFile,
                   current_conversation_id, conversations, saveTasks, reported,
                   orchFor>>
    /\ UNCHANGED <<bookVars, klineVars, supVars, llmVars, orchVars, gateVars, cacheVars,
                   backVars, collVars>>

\* ai_analysis: _user_prompt and _ai_content are added to self.analysis.
AddMetadata ==
    /\ llmPhase = "parsed"
    /\ llmPhase' = "meta"
    /\ UNCHANGED <<jPc, ai_decision_history, historyFile,
                   current_conversation_id, conversations, saveTasks, llmCalls,
                   reported, orchFor>>
    /\ UNCHANGED <<bookVars, klineVars, supVars, llmVars, orchVars, gateVars, cacheVars,
                   backVars, collVars>>

\* _save_conversation_async: nothing without the metadata, else a save_task
\* thread is started.
_save_conversation_async(call, is_executed) ==
    saveTasks' = IF HasMetadata
                 THEN Append(saveTasks, NewTask(call, is_executed))
                 ELSE saveTasks

\* ai_analysis, last statement: the call's record is saved, not executed; the
\* caller then runs run_conversation unless the early decision already did
\* (a HOLD signal runs no orchestrator).
SaveAfterAnalysis ==
    /\ llmPhase = "meta"
    /\ _save_conversation_async(llmCalls, FALSE)
    /\ llmPhase' = "saved"
    /\ orchFor' \in IF orchFor = 0 /\ llmCalls \notin reported
                     THEN {0, llmCalls} ELSE {orchFor}
    /\ UNCHANGED <<jPc, ai_decision_history, historyFile,
                   current_conversation_id, conversations, llmCalls, reported>>
    /\ UNCHANGED <<bookVars, klineVars, supVars, llmVars, orchVars, gateVars, cacheVars,
                   backVars, collVars>>

\* execute_open / execute_adjust_stop / execute_close: the orchestrator waits
\* for self.analysis to hold a reason, or for its time limit, and reports.
ReportExecution ==
    /\ orchFor # 0
    /\ Len(saveTasks) + Unsaved < MaxSaves
    /\ \E is_executed \in BOOLEAN, timed_out \in BOOLEAN :
        /\ HasReason \/ timed_out
        /\ _save_conversation_async(llmCalls, is_executed)
    /\ reported' = reported \cup {orchFor}
    /\ orchFor' = 0
    /\ UNCHANGED <<jPc, ai_decision_history, historyFile,
                   current_conversation_id, conversations, llmCalls, llmPhase>>
    /\ UNCHANGED <<bookVars, klineVars, supVars, llmVars, orchVars, gateVars, cacheVars,
                   backVars, collVars>>

\* save_task, update branch: the record named by current_conversation_id is
\* marked executed and the thread returns.
update_conversation_executed ==
    \E t \in 1..Len(saveTasks) :
        /\ saveTasks[t].pc = "begin"
        /\ saveTasks[t].is_executed
        /\ current_conversation_id # NoConv
        /\ conversations' =
             [conversations EXCEPT ![current_conversation_id] =
                [@ EXCEPT !.executed = TRUE,
                          !.markedFor = @ \cup {saveTasks[t].call}]]
        /\ saveTasks' = [saveTasks EXCEPT ![t] = DoneTask]
        /\ UNCHANGED <<jPc, ai_decision_history, historyFile,
                       current_conversation_id, llmCalls, reported, llmPhase,
                       orchFor>>
        /\ UNCHANGED <<bookVars, klineVars, supVars, llmVars, orchVars, gateVars, cacheVars,
                   backVars, collVars>>

\* save_task, create branch: a new record is inserted and its id becomes
\* self.current_conversation_id.
save_conversation ==
    \E t \in 1..Len(saveTasks) :
        /\ saveTasks[t].pc = "begin"
        /\ ~(saveTasks[t].is_executed /\ current_conversation_id # NoConv)
        /\ conversations' =
             Append(conversations,
                    [call |-> saveTasks[t].call,
                     executed |-> saveTasks[t].is_executed,
                     markedFor |-> IF saveTasks[t].is_executed
                                   THEN {saveTasks[t].call} ELSE {}])
        /\ current_conversation_id' = Len(conversations) + 1
        /\ saveTasks' = [saveTasks EXCEPT ![t].pc = "append"]
        /\ UNCHANGED <<jPc, ai_decision_history, historyFile, llmCalls, reported,
                       llmPhase, orchFor>>
        /\ UNCHANGED <<bookVars, klineVars, supVars, llmVars, orchVars, gateVars, cacheVars,
                   backVars, collVars>>

\* history_to_save = self.ai_decision_history[-10:] if it is longer than 10,
\* else the list object itself.
PickHistoryToSave(task, history) ==
    IF Len(history) > HistoryLimit
    THEN [task EXCEPT !.pc = "write", !.sliced = <<>>, !.by_ref = FALSE,
                      !.to_save = LastN(history, HistoryLimit)]
    ELSE [task EXCEPT !.pc = "write", !.sliced = <<>>, !.by_ref = TRUE,
                      !.to_save = <<>>]

\* save_task: self.ai_decision_history.append(...); when the list is then
\* longer than 10 the slice [-10:] is taken, else history_to_save is picked.
AppendHistory ==
    \E t \in 1..Len(saveTasks) :
        /\ saveTasks[t].pc = "append"
        /\ ai_decision_history' = Append(ai_decision_history, saveTasks[t].call)
        /\ saveTasks' =
             [saveTasks EXCEPT ![t] =
                IF Len(ai_decision_history') > HistoryLimit
                THEN [@ EXCEPT !.pc = "assign",
                               !.sliced = LastN(ai_decision_history', HistoryLimit)]
                ELSE PickHistoryToSave(@, ai_decision_history')]
        /\ UNCHANGED <<jPc, historyFile, current_conversation_id, conversations,
                       llmCalls, reported, llmPhase, orchFor>>
        /\ UNCHANGED <<bookVars, klineVars, supVars, llmVars, orchVars, gateVars, cacheVars,
                   backVars, collVars>>

\* save_task: self.ai_decision_history = <the slice>, a new list object; the
\* threads that picked the old object keep it, and nothing appends to it any
\* more. history_to_save is then picked.
TruncateAssign ==
    \E t \in 1..Len(saveTasks) :
        /\ saveTasks[t].pc = "assign"
        /\ ai_decision_history' = saveTasks[t].sliced
        /\ saveTasks' =
             [u \in 1..Len(saveTasks) |->
                IF u = t
                THEN PickHistoryToSave(saveTasks[t], saveTasks[t].sliced)
                ELSE IF saveTasks[u].by_ref
                     THEN [saveTasks[u] EXCEPT !.by_ref = FALSE,
                                               !.to_save = ai_decision_history]
                     ELSE saveTasks[u]]
        /\ UNCHANGED <<jPc, historyFile, current_conversation_id, conversations,
                       llmCalls, reported, llmPhase, orchFor>>
        /\ UNCHANGED <<bookVars, klineVars, supVars, llmVars, orchVars, gateVars, cacheVars,
                   backVars, collVars>>

\* save_task: json.dump(history_to_save, f)
WriteHistoryFile ==
    \E t \in 1..Len(saveTasks) :
        /\ saveTasks[t].pc = "write"
        /\ historyFile' = IF saveTasks[t].by_ref
                          THEN ai_decision_history
                          ELSE saveTasks[t].to_save
        /\ saveTasks' = [saveTasks EXCEPT ![t] = DoneTask]
        /\ UNCHANGED <<jPc, ai_decision_history, current_conversation_id,
                       conversations, llmCalls, reported, llmPhase, orchFor>>
        /\ UNCHANGED <<bookVars, klineVars, supVars, llmVars, orchVars, gateVars, cacheVars,
                   backVars, collVars>>

JournalInit ==
    /\ jPc = "startup"
    /\ ai_decision_history = <<>>
    /\ historyFile = <<>>
    /\ current_conversation_id = NoConv
    /\ conversations = <<>>
    /\ saveTasks = <<>>
    /\ llmCalls = 0
    /\ reported = {}
    /\ llmPhase = "idle"
    /\ orchFor = 0

\* ------------------------------------------------------------------------
\* Cache refreshers: update_position_cache with its close notifications,
\* update_position_history_cache with the reviews of the closed positions
\* ------------------------------------------------------------------------
\* A position is named by its cTime (openTimeMs): 1, 2, ... in opening order.
MaxOpened == 1            \* positions opened on the exchange in one run
PosIds == 1..MaxOpened

\* every position of the last snapshot counts as closed
ClosedSinceAll(prev, new) == prev

\* update_position_cache, lines 682-683: the positions of the last snapshot
\* whose cTime the new one lacks
ClosedSince(prev, new) == prev \ new

\* a review is generated whether or not the row holds one
NeedsReviewAlways(id, has_decisions) == has_decisions

\* update_position_history_cache, lines 1019-1030 and 1061-1062: a review is
\* generated for a row without a review summary whose decision journal is
\* not empty
NeedsReview(id, has_decisions) == id \notin reviewed /\ has_decisions

\* What happens to one row in the review loop: its decision journal is
\* empty; the LLM answers and the store takes the text; the LLM fails or
\* answers with nothing; the store refuses the text or raises.
ReviewOutcomes == {"no_decisions", "saved", "llm_failed", "save_failed"}

\* datetime.now() of lines 687 and 704: a value the attribute did not hold
\* (0 stands for None, the stamps alternate between 1 and 2)
NewStamp(last) == IF last = 1 THEN 2 ELSE 1

\* the exchange opens a position
OpenPosition ==
    /\ Cardinality(exchOpen \cup exchClosed) < MaxOpened
    /\ exchOpen' = exchOpen \cup {Cardinality(exchOpen \cup exchClosed) + 1}
    /\ UNCHANGED <<feishu_enabled, exchClosed, stop_position_thread, posPc,
                   cached_ctimes, fetched, toNotify, notified, posted,
                   stop_history_thread, closedDb,
                   cached_historical_positions, reviewed, attempted,
                   lastCalls,
                   historyTick, positions_last_update, refreshResult>>
    /\ UNCHANGED <<bookVars, klineVars, supVars, llmVars, orchVars, gateVars, journalVars,
                   backVars, collVars>>

\* the exchange closes a position: it leaves the positions and enters the
\* positions history
ClosePosition ==
    /\ \E id \in exchOpen :
        /\ exchOpen' = exchOpen \ {id}
        /\ exchClosed' = exchClosed \cup {id}
    /\ UNCHANGED <<feishu_enabled, stop_position_thread, posPc,
                   cached_ctimes, fetched, toNotify, notified, posted,
                   stop_history_thread, closedDb,
                   cached_historical_positions, reviewed, attempted,
                   lastCalls,
                   historyTick, positions_last_update, refreshResult>>
    /\ UNCHANGED <<bookVars, klineVars, supVars, llmVars, orchVars, gateVars, journalVars,
                   backVars, collVars>>

\* __init__, lines 259-261, and start_position_update_thread, lines 696-716:
\* the notifier is configured or not; the positions are fetched once, and
\* the thread is started whether or not the fetch succeeded
start_position_update_thread ==
    /\ posPc = "new"
    /\ \E flag \in BOOLEAN : feishu_enabled' = flag
    /\ \E ok \in BOOLEAN :
         /\ cached_ctimes' = IF ok THEN exchOpen ELSE {}
         /\ positions_last_update' =
               IF ok THEN NewStamp(positions_last_update)
               ELSE positions_last_update
    /\ posPc' = "tick"
    /\ UNCHANGED <<exchOpen, exchClosed, stop_position_thread, fetched,
                   toNotify, notified, posted, stop_history_thread, closedDb,
                   cached_historical_positions, reviewed, attempted,
                   lastCalls,
                   historyTick, refreshResult>>
    /\ UNCHANGED <<bookVars, klineVars, supVars, llmVars, orchVars, gateVars, journalVars,
                   backVars, collVars>>

\* the answer is treated as a snapshot unless the request raised
HasPositionsUnlessRaised(res) == res # "raise"
\* update_position_cache, line 655: result['code'] == '0'
HasPositions(res) == res = "ok"

\* update_position_cache, lines 652-680 and 690-694: the head of the loop and
\* the request.  A refused or failed request leaves the cache as it is and
\* the loop sleeps and comes back to its head.
get_contract_positions ==
    /\ posPc = "tick"
    /\ IF stop_position_thread
       THEN /\ posPc' = "stopped"
            /\ UNCHANGED <<fetched, toNotify, refreshResult>>
       ELSE \E res \in {"ok", "error", "raise"} :
              /\ refreshResult' = res
              /\ IF HasPositions(res)
                 THEN /\ fetched' = IF res = "ok" THEN exchOpen ELSE {}
                      /\ toNotify' = ClosedSince(cached_ctimes, fetched')
                      /\ posPc' = "diff"
                 ELSE UNCHANGED <<posPc, fetched, toNotify>>
    /\ UNCHANGED <<feishu_enabled, exchOpen, exchClosed,
                   stop_position_thread, cached_ctimes, notified, posted,
                   stop_history_thread, closedDb,
                   cached_historical_positions, reviewed, attempted,
                   lastCalls,
                   historyTick, positions_last_update>>
    /\ UNCHANGED <<bookVars, klineVars, supVars, llmVars, orchVars, gateVars, journalVars,
                   backVars, collVars>>

\* send_feishu_content, lines 266-333, called at line 685 for a closed
\* position.  Without a notifier it returns at once.  With one it reads
\* self.cached_historical_positions again and again until a row has the
\* open_time (lines 277-282); then it builds the message and posts it, or a
\* key the row lacks or the request raises, which is logged.
send_feishu_content ==
    /\ posPc = "diff"
    /\ \E id \in toNotify, post_made \in BOOLEAN :
        /\ feishu_enabled => id \in cached_historical_positions
        /\ toNotify' = toNotify \ {id}
        /\ notified' = notified \cup {id}
        /\ posted' = IF feishu_enabled /\ post_made
                     THEN posted \cup {id} ELSE posted
    /\ UNCHANGED <<feishu_enabled, exchOpen, exchClosed,
                   stop_position_thread, posPc, cached_ctimes, fetched,
                   stop_history_thread, closedDb,
                   cached_historical_positions, reviewed, attempted,
                   lastCalls,
                   historyTick, positions_last_update, refreshResult>>
    /\ UNCHANGED <<bookVars, klineVars, supVars, llmVars, orchVars, gateVars, journalVars,
                   backVars, collVars>>

\* update_position_cache, lines 686-688 and 694: the new snapshot takes the
\* place of the last one and the loop sleeps
PositionsRefreshed ==
    /\ posPc = "diff"
    /\ toNotify = {}
    /\ cached_ctimes' = fetched
    /\ fetched' = {}
    /\ notified' = {}
    /\ posted' = {}
    /\ positions_last_update' = NewStamp(positions_last_update)
    /\ refreshResult' = "none"
    /\ posPc' = "tick"
    /\ UNCHANGED <<feishu_enabled, exchOpen, exchClosed,
                   stop_position_thread, toNotify, stop_history_thread,
                   closedDb, cached_historical_positions, reviewed,
                   attempted, lastCalls,
                   historyTick>>
    /\ UNCHANGED <<bookVars, klineVars, supVars, llmVars, orchVars, gateVars, journalVars,
                   backVars, collVars>>

\* stop_position_update_thread, line 738
stop_position_update_thread ==
    /\ posPc # "new"
    /\ ~stop_position_thread
    /\ stop_position_thread' = TRUE
    /\ UNCHANGED <<feishu_enabled, exchOpen, exchClosed, posPc,
                   cached_ctimes, fetched, toNotify, notified, posted,
                   stop_history_thread, closedDb,
                   cached_historical_positions, reviewed, attempted,
                   lastCalls,
                   historyTick, positions_last_update, refreshResult>>
    /\ UNCHANGED <<bookVars, klineVars, supVars, llmVars, orchVars, gateVars, journalVars,
                   backVars, collVars>>

\* update_position_history_cache, lines 949-1130, one pass of the loop: the
\* request, the saving of the rows, the review of each row with
\* generate_position_review (lines 1523-1646) and the refresh of the cache
\* from the store.  A request that raises ends the pass (line 1128); an
\* answer with an error code saves nothing and reviews nothing; a call to
\* the store that raises after the reviews leaves the cache as it was.
update_position_history_cache ==
    /\ ~stop_history_thread
    /\ \E res \in {"ok", "error", "raise"}, cache_ok \in BOOLEAN :
         LET rows == IF res = "ok" THEN exchClosed ELSE {} IN
         \E outcome \in [rows -> ReviewOutcomes] :
           LET called == {id \in rows :
                            NeedsReview(id, outcome[id] # "no_decisions")}
               saved == {id \in called : outcome[id] = "saved"}
           IN  IF res = "raise"
               THEN UNCHANGED <<closedDb, cached_historical_positions,
                                reviewed, attempted, lastCalls, historyTick>>
               ELSE /\ historyTick' = ~historyTick
                    /\ closedDb' = closedDb \cup rows
                    /\ lastCalls' = called
                    /\ attempted' = attempted \cup called
                    /\ reviewed' = reviewed \cup saved
                    /\ cached_historical_positions' =
                         IF cache_ok THEN closedDb'
                         ELSE cached_historical_positions
    /\ UNCHANGED <<feishu_enabled, exchOpen, exchClosed,
                   stop_position_thread, posPc, cached_ctimes, fetched,
                   toNotify, notified, posted, stop_history_thread,
                   positions_last_update, refreshResult>>
    /\ UNCHANGED <<bookVars, klineVars, supVars, llmVars, orchVars, gateVars, journalVars,
                   backVars, collVars>>

\* stop_position_history_thread, line 1340
stop_position_history_thread ==
    /\ ~stop_history_thread
    /\ stop_history_thread' = TRUE
    /\ UNCHANGED <<feishu_enabled, exchOpen, exchClosed,
                   stop_position_thread, posPc, cached_ctimes, fetched,
                   toNotify, notified, posted, closedDb,
                   cached_historical_positions, reviewed, attempted,
                   lastCalls,
                   historyTick, positions_last_update, refreshResult>>
    /\ UNCHANGED <<bookVars, klineVars, supVars, llmVars, orchVars, gateVars, journalVars,
                   backVars, collVars>>

CacheInit ==
    /\ feishu_enabled = FALSE
    /\ exchOpen = {}
    /\ exchClosed = {}
    /\ stop_position_thread = FALSE
    /\ posPc = "new"
    /\ cached_ctimes = {}
    /\ fetched = {}
    /\ toNotify = {}
    /\ notified = {}
    /\ posted = {}
    /\ stop_history_thread = FALSE
    /\ closedDb = {}
    /\ cached_historical_positions = {}
    /\ reviewed = {}
    /\ attempted = {}
    /\ lastCalls = {}
    /\ historyTick = FALSE
    /\ positions_last_update = 0
    /\ refreshResult = "none"

\* ------------------------------------------------------------------------
\* History backfill: _init_history_data, _detect_missing_ranges and
\* _fetch_and_save_klines for one (symbol, timeframe)
\* ------------------------------------------------------------------------
BarMs == 2                \* BAR_TO_MS of the timeframe, in the model's ms
PageSize == 2             \* candles in one answer of get_history_candles
HistoryBars == 2          \* bars in history_days of the timeframe
MaxTicks == 4             \* ms the clock advances in one run of the model
FirstClock == HistoryBars * BarMs

\* lines 855-859: aligned down to the opening of a bar
Aligned(ms) == (ms \div BarMs) * BarMs
start_time_ms(now) == Aligned(now - HistoryBars * BarMs)
end_time_ms(now) == Aligned(now)

\* lines 877-881
RECURSIVE expected_timestamps(_, _)
expected_timestamps(current_ts, end) ==
    IF current_ts > end THEN <<>>
    ELSE <<current_ts>> \o expected_timestamps(current_ts + BarMs, end)

\* every expected timestamp counts as missing
IsMissingAlways(ts, existing_timestamps) == TRUE

\* line 884
IsMissing(ts, existing_timestamps) == ts \notin existing_timestamps

missing_timestamps(now, existing_timestamps) ==
    SelectSeq(expected_timestamps(start_time_ms(now), end_time_ms(now)),
              LAMBDA ts : IsMissing(ts, existing_timestamps))

\* a range ends at its last missing timestamp
RangeEndLast(range_end) == range_end

\* lines 901 and 906: a range ends one bar after its last missing timestamp
RangeEnd(range_end) == range_end + BarMs

\* lines 891-906: the loop over missing_timestamps from index i on, and the
\* last range
RECURSIVE MergeRanges(_, _, _, _)
MergeRanges(missing, i, range_start, range_end) ==
    IF i > Len(missing)
    THEN << <<range_start, RangeEnd(range_end)>> >>
    ELSE IF missing[i] = range_end + BarMs
         THEN MergeRanges(missing, i + 1, range_start, missing[i])
         ELSE << <<range_start, RangeEnd(range_end)>> >>
              \o MergeRanges(missing, i + 1, missing[i], missing[i])

\* _detect_missing_ranges, lines 831-910, for the clock reading now and the
\* timestamps of the rows the store returns
DetectMissingRanges(now, existing_timestamps) ==
    IF existing_timestamps = {}
    THEN << <<start_time_ms(now), end_time_ms(now)>> >>
    ELSE LET missing == missing_timestamps(now, existing_timestamps)
         IN  IF missing = <<>> THEN <<>>
             ELSE MergeRanges(missing, 2, missing[1], missing[1])

\* the candles the exchange has when the clock reads now: every bar that
\* is over, and the running one or not
ExchangeBars(now, with_running) ==
    {ts \in 0..now : ts % BarMs = 0
                    /\ (ts < Aligned(now) \/ with_running)}

\* _init_history_data, lines 807-810: after=end_ts returns the candles
\* before end_ts, before=start_ts-1 those after it, no lower end for
\* start_ts = 0
InRequest(ts, range) ==
    /\ ts < range[2]
    /\ range[1] > 0 => ts > range[1] - 1

\* the n newest timestamps of a set
Newest(bars, n) == {ts \in bars : Cardinality({u \in bars : u > ts}) < n}

\* time passes on the collector's host
ClockTick ==
    /\ histClock < FirstClock + MaxTicks
    /\ histClock' = histClock + 1
    /\ UNCHANGED <<dbBars, backPc, missing_ranges, toFill, requested,
                   insertedRows, prevInserted>>
    /\ UNCHANGED <<bookVars, klineVars, supVars, llmVars, orchVars, gateVars,
                   journalVars, cacheVars, collVars>>

\* on_business_message, lines 284-310: the live collector stores the running
\* bar while the backfill is at any point
LiveBarSaved ==
    /\ dbBars' = dbBars \cup {Aligned(histClock)}
    /\ UNCHANGED <<histClock, backPc, missing_ranges, toFill, requested,
                   insertedRows, prevInserted>>
    /\ UNCHANGED <<bookVars, klineVars, supVars, llmVars, orchVars, gateVars,
                   journalVars, cacheVars, collVars>>

\* start, line 575: the collector starts (again) and creates the task
_init_history_data ==
    /\ backPc \in {"done", "failed"}
    /\ backPc' = "idle"
    /\ UNCHANGED <<histClock, dbBars, missing_ranges, toFill, requested,
                   insertedRows, prevInserted>>
    /\ UNCHANGED <<bookVars, klineVars, supVars, llmVars, orchVars, gateVars,
                   journalVars, cacheVars, collVars>>

\* _init_history_data, lines 766-776 and 818-821, with
\* _detect_missing_ranges: no range, and the timeframe is done; or the
\* ranges to fill; or the store raises and the timeframe is given up
_detect_missing_ranges ==
    /\ backPc = "idle"
    /\ \E raised \in BOOLEAN :
         LET ranges == IF raised THEN <<>>
                       ELSE DetectMissingRanges(histClock, dbBars)
         IN  /\ missing_ranges' = ranges
             /\ toFill' = ranges
             /\ backPc' = IF raised THEN "failed"
                          ELSE IF ranges = <<>> THEN "done" ELSE "fetch"
    /\ requested' = {}
    /\ insertedRows' = {}
    /\ prevInserted' = insertedRows
    /\ UNCHANGED <<histClock, dbBars>>
    /\ UNCHANGED <<bookVars, klineVars, supVars, llmVars, orchVars, gateVars,
                   journalVars, cacheVars, collVars>>

\* _init_history_data, lines 790-816, for one range, with
\* _fetch_and_save_klines, lines 912-964: the pages come newest first and
\* each is saved; the loop ends with a short or empty page, or earlier with
\* an answer that is an error or raises
_fetch_and_save_klines ==
    /\ backPc = "fetch"
    /\ \E with_running \in BOOLEAN :
         LET range == Head(toFill)
             bars == {ts \in ExchangeBars(histClock, with_running) :
                        InRequest(ts, range)}
             pages == (Cardinality(bars) + PageSize - 1) \div PageSize
         IN  \E answered \in 0..pages :
               LET saved == Newest(bars, answered * PageSize)
               IN  /\ dbBars' = dbBars \cup saved
                   /\ insertedRows' = insertedRows \cup (saved \ dbBars)
                   /\ requested' = requested \cup {range}
    /\ toFill' = Tail(toFill)
    /\ backPc' = IF Tail(toFill) = <<>> THEN "done" ELSE "fetch"
    /\ UNCHANGED <<histClock, missing_ranges, prevInserted>>
    /\ UNCHANGED <<bookVars, klineVars, supVars, llmVars, orchVars, gateVars,
                   journalVars, cacheVars, collVars>>

BackInit ==
    /\ histClock = FirstClock
    /\ dbBars = {}
    /\ backPc = "idle"
    /\ missing_ranges = <<>>
    /\ toFill = <<>>
    /\ requested = {}
    /\ insertedRows = {}
    /\ prevInserted = {}

\* ------------------------------------------------------------------------
\* Paging: the loop of _fetch_and_save_klines for one gap
\* ------------------------------------------------------------------------
max_iterations == 3       \* max_iterations, in the model's requests
MaxCursor == 2            \* timestamps the exchange answers with: 0..MaxCursor
Cursors == 0..MaxCursor
NoPage == [res |-> "none", len |-> 0, oldest |-> 0]
Pages ==
    {[res |-> res, len |-> len, oldest |-> oldest] :
        res \in {"ok", "error", "raise"}, len \in 0..PageSize,
        oldest \in Cursors}

\* the loop asks again after every page that was saved
AsksAgainAnyway(page, after) == page.len > 0

\* lines 951-957: the loop asks again after a page whose oldest timestamp
\* is not the cursor and that holds a full page of candles
AsksAgain(page, after) ==
    /\ page.oldest # after
    /\ ~(page.len < PageSize)

\* _init_history_data, line 807: the call for a gap
FetchStarts ==
    /\ pagePc # "loop"
    /\ \E after \in Cursors : current_after' = after
    /\ pagePc' = "loop"
    /\ iteration' = 0
    /\ count' = 0
    /\ lastPage' = NoPage
    /\ UNCHANGED <<bookVars, klineVars, supVars, llmVars, orchVars, gateVars,
                   journalVars, cacheVars, backVars, timeVars, wsVars>>

\* _fetch_and_save_klines, lines 918-962: one pass of the loop.  The
\* answer is an error, or the request or the saving raises, or it is a
\* page, empty or not, which is saved; what the exchange answers is up to
\* the exchange.
get_history_candles ==
    /\ pagePc = "loop"
    /\ \E page \in Pages :
        /\ lastPage' = page
        /\ iteration' = iteration + 1
        /\ IF page.res # "ok" \/ page.len = 0
           THEN /\ pagePc' = "returned"
                /\ UNCHANGED <<current_after, count>>
           ELSE /\ count' = count + page.len
                /\ current_after' = IF page.oldest = current_after
                                    THEN current_after ELSE page.oldest
                /\ pagePc' = IF AsksAgain(page, current_after)
                                /\ iteration + 1 < max_iterations
                             THEN "loop" ELSE "returned"
    /\ UNCHANGED <<bookVars, klineVars, supVars, llmVars, orchVars, gateVars,
                   journalVars, cacheVars, backVars, timeVars, wsVars>>

PageInit ==
    /\ pagePc = "idle"
    /\ current_after = 0
    /\ iteration = 0
    /\ count = 0
    /\ lastPage = NoPage

\* ------------------------------------------------------------------------
\* Clocks: _sync_server_time, get_corrected_time_ms and the readings of
\* 'now' of _fix_unconfirmed_klines, _monitor_status and
\* check_data_freshness
\* ------------------------------------------------------------------------
MaxSkew == 2              \* the host's clock is off by -MaxSkew..MaxSkew
MaxWait == 1              \* ms that pass after the start in one run
StartNow == 2 * BarMs - 1 \* the exchange's clock when the collector starts
Skews == (0 - MaxSkew)..MaxSkew
BarStarts == {ts \in 0..StartNow : ts % BarMs = 0}
RoundTrips == {0, 2}      \* local_after - local_before of a query
NoRow == [confirmed |-> TRUE, data |-> "none"]
LiveRow == [confirmed |-> FALSE, data |-> "live"]
NoRead == [by |-> "none", now |-> 0, corrected |-> 0]

\* time.time() * 1000 on the host
LocalNow == srvNow + skew

\* get_corrected_time_ms, lines 203-211
get_corrected_time_ms == LocalNow - time_offset_ms

\* _monitor_status, line 1060: the watchdog's now
WatchdogNow(local_time_ms) == local_time_ms - time_offset_ms

\* _fix_unconfirmed_klines, line 668: the repair's now
RepairNow(local_time_ms) == local_time_ms

\* check_data_freshness, line 1703: the gate's now
GateNow(local_time_ms) == local_time_ms

\* _sync_server_time, lines 173-179: the sample of a query sent at
\* local_before that took round_trip and that the exchange answered with
\* server_time
OffsetSample(local_before, round_trip, server_time) ==
    (local_before + round_trip \div 2) - server_time

Sorted(seq) == SortSeq(seq, LAMBDA a, b : a < b)

\* the first of the sorted samples
MedianIndexFirst(n) == 1

\* line 189: samples[len(samples) // 2], with the first element at 1
MedianIndex(n) == n \div 2 + 1

\* the collector starts on a host whose clock is off, with the klines an
\* earlier run left unconfirmed in the store
HostStarts ==
    /\ timePc = "new"
    /\ \E sk \in Skews : skew' = sk
    /\ \E left \in SUBSET BarStarts :
         storedKlines' = [ts \in BarStarts |->
                            IF ts \in left THEN LiveRow ELSE NoRow]
    /\ timePc' = "sync"
    /\ UNCHANGED <<srvNow, samples, sampleNo, syncRaised, time_offset_ms, unconfirmed,
                   toFix, now_ms, fixAnswers, lastRead>>
    /\ UNCHANGED <<bookVars, klineVars, supVars, llmVars, orchVars, gateVars,
                   journalVars, cacheVars, backVars, pageVars, wsVars>>

\* time passes on both clocks
TimePasses ==
    /\ timePc # "new"
    /\ srvNow < StartNow + MaxWait
    /\ srvNow' = srvNow + 1
    /\ UNCHANGED <<timePc, skew, samples, sampleNo, syncRaised, time_offset_ms,
                   unconfirmed, storedKlines, toFix, now_ms, fixAnswers,
                   lastRead>>
    /\ UNCHANGED <<bookVars, klineVars, supVars, llmVars, orchVars, gateVars,
                   journalVars, cacheVars, backVars, pageVars, wsVars>>

\* _sync_server_time, lines 166-199: one query.  An answer with code '0'
\* gives a sample; another answer gives none; a query that raises ends the
\* sync in the handler of line 198 with the offset as it was.  After the
\* third query the offset is taken from the samples, if there is one.
get_system_time ==
    /\ timePc = "sync"
    /\ \E res \in {"ok", "error", "raise"}, round_trip \in RoundTrips :
       \E delay \in 0..round_trip :
         LET taken == IF res = "ok"
                      THEN Append(samples,
                                  OffsetSample(LocalNow, round_trip,
                                               srvNow + delay))
                      ELSE samples
         IN  /\ samples' = taken
             /\ sampleNo' = sampleNo + 1
             /\ syncRaised' = (res = "raise")
             /\ IF res = "raise"
                THEN /\ timePc' = "synced"
                     /\ UNCHANGED time_offset_ms
                ELSE IF sampleNo + 1 < 3
                THEN UNCHANGED <<timePc, time_offset_ms>>
                ELSE /\ timePc' = "synced"
                     /\ time_offset_ms' =
                          IF taken # <<>>
                          THEN Sorted(taken)[MedianIndex(Len(taken))]
                          ELSE time_offset_ms
    /\ UNCHANGED <<skew, srvNow, unconfirmed, storedKlines, toFix, now_ms,
                   fixAnswers, lastRead>>
    /\ UNCHANGED <<bookVars, klineVars, supVars, llmVars, orchVars, gateVars,
                   journalVars, cacheVars, backVars, pageVars, wsVars>>

\* _fix_unconfirmed_klines, lines 657-670: the unconfirmed klines are read
\* and the clock is read once
_fix_unconfirmed_klines ==
    /\ timePc = "synced"
    /\ LET found == {ts \in BarStarts : ~storedKlines[ts].confirmed} IN
        /\ unconfirmed' = found
        /\ toFix' = found
        /\ timePc' = IF found = {} THEN "repaired" ELSE "fix"
    /\ now_ms' = RepairNow(LocalNow)
    /\ lastRead' = [by |-> "repair", now |-> RepairNow(LocalNow),
                    corrected |-> get_corrected_time_ms]
    /\ UNCHANGED <<skew, srvNow, samples, sampleNo, syncRaised, time_offset_ms,
                   storedKlines, fixAnswers>>
    /\ UNCHANGED <<bookVars, klineVars, supVars, llmVars, orchVars, gateVars,
                   journalVars, cacheVars, backVars, pageVars, wsVars>>

\* _fix_unconfirmed_klines, lines 685-741, for one kline.  A kline whose
\* bar end is not before now_ms is skipped.  For the others one candle is
\* asked for with after=timestamp, which the exchange answers with the
\* candle before that time (see lines 804-806); no candle has the
\* timestamp, so the first one is taken (lines 719-721) and the row is
\* overwritten with it and confirmed.  An error, an empty answer or an
\* exception leaves the row.
update_kline_confirmed ==
    /\ timePc = "fix"
    /\ \E timestamp \in toFix, res \in {"ok", "error", "empty", "raise"} :
        /\ toFix' = toFix \ {timestamp}
        /\ timePc' = IF toFix = {timestamp} THEN "repaired" ELSE "fix"
        /\ IF now_ms <= timestamp + BarMs
           THEN UNCHANGED <<storedKlines, fixAnswers>>
           ELSE /\ fixAnswers' = [fixAnswers EXCEPT ![timestamp] = res]
                /\ storedKlines' =
                     IF res = "ok"
                     THEN [storedKlines EXCEPT
                             ![timestamp] = [confirmed |-> TRUE,
                                             data |-> "candle_before"]]
                     ELSE storedKlines
    /\ UNCHANGED <<skew, srvNow, samples, sampleNo, syncRaised, time_offset_ms,
                   unconfirmed, now_ms, lastRead>>
    /\ UNCHANGED <<bookVars, klineVars, supVars, llmVars, orchVars, gateVars,
                   journalVars, cacheVars, backVars, pageVars, wsVars>>

\* _monitor_status, line 1060: the watchdog reads the clock for its ages
WatchdogReadsClock ==
    /\ timePc = "repaired"
    /\ lastRead' = [by |-> "watchdog", now |-> WatchdogNow(LocalNow),
                    corrected |-> get_corrected_time_ms]
    /\ UNCHANGED <<timePc, skew, srvNow, samples, sampleNo, syncRaised, time_offset_ms,
                   unconfirmed, storedKlines, toFix, now_ms, fixAnswers>>
    /\ UNCHANGED <<bookVars, klineVars, supVars, llmVars, orchVars, gateVars,
                   journalVars, cacheVars, backVars, pageVars, wsVars>>

\* check_data_freshness, line 1703: the gate reads the clock for its lags
GateReadsClock ==
    /\ timePc = "repaired"
    /\ lastRead' = [by |-> "gate", now |-> GateNow(LocalNow),
                    corrected |-> get_corrected_time_ms]
    /\ UNCHANGED <<timePc, skew, srvNow, samples, sampleNo, syncRaised, time_offset_ms,
                   unconfirmed, storedKlines, toFix, now_ms, fixAnswers>>
    /\ UNCHANGED <<bookVars, klineVars, supVars, llmVars, orchVars, gateVars,
                   journalVars, cacheVars, backVars, pageVars, wsVars>>

TimeInit ==
    /\ timePc = "new"
    /\ skew = 0
    /\ srvNow = StartNow
    /\ samples = <<>>
    /\ sampleNo = 0
    /\ syncRaised = FALSE
    /\ time_offset_ms = 0
    /\ unconfirmed = {}
    /\ storedKlines = [ts \in BarStarts |-> NoRow]
    /\ toFix = {}
    /\ now_ms = 0
    /\ fixAnswers = [ts \in BarStarts |-> "none"]
    /\ lastRead = NoRead

\* ------------------------------------------------------------------------
\* The two WebSocket sessions of the collector
\* ------------------------------------------------------------------------
\* The sessions are OkxWebSocket objects (src/data/okx_websocket.py); the
\* collector gives them its callbacks.  Of a session the model keeps the
\* state machine of the specification: Connecting -> Subscribed -> Streaming
\* -> (Closing | Error) -> Reconnecting -> Connecting.
MaxDrops == 2
Sessions == {"public", "business"}

\* start, lines 543-607: is_running is set, the two sessions are built and
\* their connect is submitted to the pool
start_sessions ==
    /\ ~ws_running /\ executor = "new"
    /\ ws_running' = TRUE
    /\ executor' = "up"
    /\ session' = [s \in Sessions |-> "connecting"]
    /\ UNCHANGED <<drops, subscriptions>>
    /\ UNCHANGED <<bookVars, klineVars, supVars, llmVars, orchVars, gateVars,
                   journalVars, cacheVars, backVars, pageVars, timeVars>>

\* connect of the session, run by a worker of the pool: the connection opens
\* or fails with an error
connect(s) ==
    /\ session[s] = "connecting"
    /\ \E opened \in BOOLEAN :
         IF opened
           THEN session' = [session EXCEPT ![s] = "open"] /\ UNCHANGED drops
           ELSE /\ drops[s] < MaxDrops
                /\ session' = [session EXCEPT ![s] = "error"]
                /\ drops' = [drops EXCEPT ![s] = @ + 1]
    /\ UNCHANGED <<ws_running, executor, subscriptions>>
    /\ UNCHANGED <<bookVars, klineVars, supVars, llmVars, orchVars, gateVars,
                   journalVars, cacheVars, backVars, pageVars, timeVars>>

\* on_public_open, lines 215-224, and on_business_open, lines 267-282: the
\* subscriptions of the session are sent
on_open(s) ==
    /\ session[s] = "open"
    /\ session' = [session EXCEPT ![s] = "subscribed"]
    /\ subscriptions' = [subscriptions EXCEPT ![s] = @ + 1]
    /\ UNCHANGED <<ws_running, executor, drops>>
    /\ UNCHANGED <<bookVars, klineVars, supVars, llmVars, orchVars, gateVars,
                   journalVars, cacheVars, backVars, pageVars, timeVars>>

\* the first push of a subscribed session
SessionStreams(s) ==
    /\ session[s] = "subscribed"
    /\ session' = [session EXCEPT ![s] = "streaming"]
    /\ UNCHANGED <<ws_running, executor, drops, subscriptions>>
    /\ UNCHANGED <<bookVars, klineVars, supVars, llmVars, orchVars, gateVars,
                   journalVars, cacheVars, backVars, pageVars, timeVars>>

\* the connection is lost: the peer closes it, or the session reports an
\* error
SessionDrops(s) ==
    /\ session[s] \in {"subscribed", "streaming"}
    /\ drops[s] < MaxDrops
    /\ drops' = [drops EXCEPT ![s] = @ + 1]
    /\ \E how \in {"closing", "error"} :
         session' = [session EXCEPT ![s] = how]
    /\ UNCHANGED <<ws_running, executor, subscriptions>>
    /\ UNCHANGED <<bookVars, klineVars, supVars, llmVars, orchVars, gateVars,
                   journalVars, cacheVars, backVars, pageVars, timeVars>>

\* on_public_error, lines 261-263, and on_business_error, lines 321-323, log
\* the error and change nothing; the session then closes (Error ->
\* Reconnecting of the state machine goes through the close callback)
SessionError(s) ==
    /\ session[s] = "error"
    /\ session' = [session EXCEPT ![s] = "closing"]
    /\ UNCHANGED <<ws_running, executor, drops, subscriptions>>
    /\ UNCHANGED <<bookVars, klineVars, supVars, llmVars, orchVars, gateVars,
                   journalVars, cacheVars, backVars, pageVars, timeVars>>

\* the condition of lines 254 and 314 under which the close callback
\* reconnects
ReconnectsNever(running) == FALSE
ReconnectsOn(running) == running

\* on_public_close, lines 252-256, and on_business_close, lines 312-316: a
\* running collector starts the pause of 5 s; a stopped one does nothing
on_close(s) ==
    /\ session[s] = "closing"
    /\ session' = [session EXCEPT ![s] =
                     IF ReconnectsOn(ws_running) THEN "reconnecting" ELSE "closed"]
    /\ UNCHANGED <<ws_running, executor, drops, subscriptions>>
    /\ UNCHANGED <<bookVars, klineVars, supVars, llmVars, orchVars, gateVars,
                   journalVars, cacheVars, backVars, pageVars, timeVars>>

\* lines 257-259 and 317-319, after the pause: connect is submitted to the
\* pool; a pool that stop has shut down refuses the task
ReconnectAfterPause(s) ==
    /\ session[s] = "reconnecting"
    /\ session' = [session EXCEPT ![s] =
                     IF executor = "up" THEN "connecting" ELSE "closed"]
    /\ UNCHANGED <<ws_running, executor, drops, subscriptions>>
    /\ UNCHANGED <<bookVars, klineVars, supVars, llmVars, orchVars, gateVars,
                   journalVars, cacheVars, backVars, pageVars, timeVars>>

\* stop, lines 1195-1222: is_running is cleared, both sessions are closed
\* and the pool is shut down with its waiting tasks cancelled
stop_sessions ==
    /\ ws_running
    /\ ws_running' = FALSE
    /\ executor' = "shutdown"
    /\ session' = [s \in Sessions |->
                     CASE session[s] \in {"open", "subscribed", "streaming",
                                          "error"} -> "closing"
                       [] session[s] = "connecting" -> "closed"
                       [] OTHER -> session[s]]
    /\ UNCHANGED <<drops, subscriptions>>
    /\ UNCHANGED <<bookVars, klineVars, supVars, llmVars, orchVars, gateVars,
                   journalVars, cacheVars, backVars, pageVars, timeVars>>

WsInit ==
    /\ ws_running = FALSE
    /\ executor = "new"
    /\ session = [s \in Sessions |-> "new"]
    /\ drops = [s \in Sessions |-> 0]
    /\ subscriptions = [s \in Sessions |-> 0]

\* ------------------------------------------------------------------------
\* Specifications
\* ------------------------------------------------------------------------
Init == BookInit /\ KlineInit /\ SupInit /\ LlmInit /\ OrchInit /\ GateInit
        /\ JournalInit /\ CacheInit /\ BackInit /\ PageInit
        /\ TimeInit /\ WsInit

BookNext == \/ BookSnapshot
            \/ BookUpdate
            \/ BookHeartbeat
            \/ BookGapUpdate
            \/ BookResetUpdate
            \/ BookNewInstance
BookSpec == Init /\ [][BookNext]_vars

KlineNext == on_business_message \/ _process_kline
KlineSpec == Init /\ [][KlineNext]_vars

SupNext == \/ EarlierRun
           \/ MainLoopTest
           \/ NewCollector
           \/ KlineMsg
           \/ TradeMsg
           \/ BookMsg
           \/ Tick
           \/ _monitor_status
           \/ StartEnds
           \/ StartReturns
           \/ StartInterrupted
           \/ StartRaises
           \/ _signal_handler
           \/ MainAfterLoop
SupSpec == Init /\ [][SupNext]_vars

\* The scheduling the code provides: the event loop runs main and the
\* watchdog task, and time passes.  Messages, signals and failures are the
\* environment's and carry no fairness.
SupFairSpec ==
    /\ SupSpec
    /\ WF_vars(MainLoopTest) /\ WF_vars(NewCollector) /\ WF_vars(StartReturns)
    /\ WF_vars(MainAfterLoop) /\ WF_vars(_monitor_status) /\ WF_vars(Tick)

LlmNext == StartStream \/ StreamChunk \/ StreamEnd \/ run_conversation
LlmSpec == Init /\ [][LlmNext]_vars
\* the decision engine of a bot built with or without auto_execute
LlmBotSpec == Init /\ [][LlmNext \/ get_instrument_info]_vars

OrchNext ==
    \/ get_instrument_info
    \/ execute_trade \/ execute_adjust_stop \/ smart_open_position
    \/ execute_open \/ get_orders_pending \/ cancel_order
    \/ get_algo_order_list \/ cancel_algo_order
    \/ _create_take_profit_layers \/ _create_stop_loss_layers
    \/ _apply_adjust_data \/ update_position_cache
OrchSpec == Init /\ [][OrchNext]_vars

GateNext ==
    extract_dual_timeframe_features \/ run_analysis \/ ai_analysis \/ NextCycle
GateSpec == Init /\ [][GateNext]_vars

JournalNext ==
    \/ _load_decision_history
    \/ EarlyDecision
    \/ FinalParse
    \/ AddMetadata
    \/ SaveAfterAnalysis
    \/ ReportExecution
    \/ update_conversation_executed
    \/ save_conversation
    \/ AppendHistory
    \/ TruncateAssign
    \/ WriteHistoryFile
JournalSpec == Init /\ [][JournalNext]_vars

PositionThread ==
    \/ get_contract_positions
    \/ send_feishu_content
    \/ PositionsRefreshed
CacheNext ==
    \/ OpenPosition
    \/ ClosePosition
    \/ start_position_update_thread
    \/ stop_position_update_thread
    \/ stop_position_history_thread
    \/ PositionThread
    \/ update_position_history_cache
CacheSpec == Init /\ [][CacheNext]_vars
\* The two refreshers are daemon threads of their own: each is scheduled
\* again and again whatever the other does.
CacheFairSpec ==
    /\ CacheSpec
    /\ WF_vars(PositionThread)
    /\ WF_vars(update_position_history_cache)

BackNext ==
    \/ ClockTick
    \/ LiveBarSaved
    \/ _init_history_data
    \/ _detect_missing_ranges
    \/ _fetch_and_save_klines
BackSpec == Init /\ [][BackNext]_vars

PageNext ==
    \/ FetchStarts
    \/ get_history_candles
PageSpec == Init /\ [][PageNext]_vars
\* _fetch_and_save_klines runs in the task of _init_history_data: the event
\* loop resumes it, and every request returns or raises.
PageFairSpec == PageSpec /\ WF_vars(get_history_candles)

TimeNext ==
    \/ HostStarts
    \/ TimePasses
    \/ get_system_time
    \/ _fix_unconfirmed_klines
    \/ update_kline_confirmed
    \/ WatchdogReadsClock
    \/ GateReadsClock
TimeSpec == Init /\ [][TimeNext]_vars

\* what the session's own thread and the pool's workers do for session s
SessionStep(s) ==
    \/ connect(s)
    \/ on_open(s)
    \/ SessionError(s)
    \/ on_close(s)
    \/ ReconnectAfterPause(s)
WsNext ==
    \/ start_sessions
    \/ stop_sessions
    \/ \E s \in Sessions : SessionStep(s)
    \/ \E s \in Sessions : SessionStreams(s)
    \/ \E s \in Sessions : SessionDrops(s)
WsSpec == Init /\ [][WsNext]_vars
\* every callback returns and the pool runs the tasks it accepted: each
\* session's own steps are taken when they stay enabled
WsFairSpec == WsSpec /\ \A s \in Sessions : WF_vars(SessionStep(s))

Next == BookNext \/ KlineNext \/ SupNext \/ LlmNext \/ OrchNext \/ GateNext
        \/ JournalNext \/ CacheNext \/ BackNext \/ PageNext
        \/ TimeNext \/ WsNext
Spec == Init /\ [][Next]_vars

\* ------------------------------------------------------------------------
\* Claims
\* ------------------------------------------------------------------------

C2_BookFollowsStream ==
    streamOk => /\ bookBids = Live(expBids)
                /\ bookAsks = Live(expAsks)
                /\ lastSeqId = exSeq

\* C2 witness: scenario S1 of the specification, after its third message.
C2_Witness ==
    /\ streamOk /\ bookLast = "update"
    /\ bookBids = (99 :> 2)
    /\ bookAsks = (101 :> 2)
    /\ lastSeqId = exSeq /\ exSeq >= 3
\* ------------------------------------------------------------------------
\* Claims about the watchdog and the restart supervisor
\* ------------------------------------------------------------------------
SomeRecorded == kline_age # NoTs \/ trade_age # NoTs \/ book_age # NoTs

\* instance n+1 runs and has received nothing for more than the timeout
SilentTooLong(n) ==
    /\ supPc = "running" /\ is_running
    /\ instances = n + 1
    /\ silence > DataTimeoutSeconds

\* instance n+1 was stopped by the watchdog and instance n+2 runs, the
\* counter being one more than before
RestartedAfterTimeout(n) ==
    /\ supPc = "running"
    /\ instances = n + 2
    /\ restart_count = n + 1
    /\ prevEnd = "timeout"

\* the premise ended: a message reached instance n+1 after all, or the
\* instance was ended by the user or by a failure
PremiseEnded(n) ==
    /\ instances = n + 1
    /\ \/ lastEnd \in {"clean", "interrupt", "signal", "exception"}
       \/ supPc = "running" /\ silence <= DataTimeoutSeconds

C7_RestartCap ==
    /\ instances <= MaxRestarts + 1
    /\ supPc \in {"running", "sleep", "create"} => restart_count <= MaxRestarts
    /\ supPc = "running" => instances = restart_count + 1
    /\ instances <= restart_count + 1
    /\ (restart_count > MaxRestarts /\ supPc = "exited") => exitCode = 1

\* C7 witness: the cap was exceeded after restarts of both causes
C7_Witness ==
    /\ exitCode = 1
    /\ instances = MaxRestarts + 1
    /\ causes = {"timeout", "exception"}

\* C8: after an instance ended without needRestart (clean exit or user
\* stop) no further instance is started and the exit code is not 1.
C8_NoRestartAfterCleanEnd ==
    cleanEndAt # 0 => /\ instances = cleanEndAt
                      /\ supPc \in {"after", "exited"}
                      /\ exitCode # 1

\* C8 witness: a restarted instance ended cleanly and the process exited
C8_Witness ==
    /\ cleanEndAt = 2 /\ lastEnd = "clean" /\ supPc = "exited" /\ exitCode = 0

\* C9: needRestart is set only on an age strictly greater than
\* dataTimeoutSeconds; an age equal to it is treated as fresh.
C9_StrictTimeout ==
    /\ need_restart => wdMax > DataTimeoutSeconds
    /\ (supPc = "running" /\ is_running /\ wdMax # NoTs
            /\ wdMax <= DataTimeoutSeconds) => ~need_restart

\* C9 witness: the watchdog saw an age equal to the timeout and the
\* instance kept running
C9_Witness ==
    /\ supPc = "running" /\ is_running /\ ~need_restart
    /\ wdMax = DataTimeoutSeconds
\* ------------------------------------------------------------------------
\* Claims about the streaming decision engine
\* ------------------------------------------------------------------------
Buffer == SubSeq(llmResp.toks, 1, sent)
BeforeReason == SubSeq(Buffer, 1, ReasonStart(Buffer) - 1)
ReasonKeySeen ==
    /\ ReasonStart(Buffer) # 0
    /\ {"signal", "confidence"} \subseteq Range(BeforeReason)

\* C3: during one streamed response run_conversation is invoked at most
\* once; it is invoked as soon as the buffer holds the key "reason" preceded
\* by signal and confidence; and it gets the signal, the confidence and the
\* size that stood before the key "reason".
C3_EarlyDecisionOnce ==
    /\ submits <= 1
    /\ ReasonKeySeen => submits = 1
    /\ \A c \in orchCalls :
         /\ c.signal = TopVal(BeforeReason, llmResp.signal, "signal")
         /\ c.confidence = TopVal(BeforeReason, llmResp.signal, "confidence")
         /\ c.signal \in OpenSignals
               => c.size = TopVal(BeforeReason, llmResp.signal, "size")
\* ------------------------------------------------------------------------
\* Claims about the order orchestrator
\* ------------------------------------------------------------------------
Placed(step) == {i \in DOMAIN apiLog : apiLog[i].call = step}
StepRank(step) ==
    CASE step = "list_limit" -> 1 [] step = "cancel_limit" -> 2
      [] step = "list_algo" -> 3 [] step = "cancel_algo" -> 4
      [] step = "place_tp" -> 5 [] step = "place_sl" -> 6

\* C4: whenever take-profit (stop-loss) layers are placed for a position,
\* the sizes of the layers of the plan sum to the size the position has on
\* the exchange at the time of the placement, within the tolerance.
C4_LayerSumsMatchPosition ==
    /\ \A i \in Placed("place_tp") :
         Abs(SumSeq(decision.adjust_data.take_profit) - apiLog[i].posAt)
            <= Tolerance
    /\ \A i \in Placed("place_sl") :
         Abs(SumSeq(decision.adjust_data.stop_loss) - apiLog[i].posAt)
            <= Tolerance

GatePassed == gatePc \in {"ai_analysis", "returned"}
AbortedForLag ==
    /\ gatePc = "returned"
    /\ gateResult.signal = "HOLD"
    /\ ~gateResult.success
    /\ gateResult.prefix = "data_lag"
    /\ ~llmCalled /\ ~orchCalled
TooOld(age) == age # NoTs /\ age > data_freshness_threshold

\* C10 as stated: if the kline last-update age, the order-book age or the
\* pressure age exceeds the threshold, run_analysis returns HOLD with
\* success=false and a reason with the data-lag prefix, and neither the LLM
\* nor the orchestrator is called in the cycle.
C10_Original ==
    (GatePassed /\ (\/ TooOld(kline_last_update)
                    \/ TooOld(features.orderbook_ts)
                    \/ TooOld(pressure_ts)))
        => AbortedForLag

\* C10, amended: in a cycle whose feature extraction succeeded, if the kline
\* last-update is older than the threshold or missing, or the order-book
\* timestamp of the features is older than the threshold, or the trade
\* features are non-empty and the latest pressure row is older than the
\* threshold, run_analysis returns HOLD with success=false and a reason
\* with the data-lag prefix, and neither the LLM nor the orchestrator is
\* called in the cycle.
C10_FreshnessGate ==
    (GatePassed /\ features.short_term
       /\ (\/ TooOld(kline_last_update) \/ kline_last_update = NoTs
           \/ TooOld(features.orderbook_ts)
           \/ (features.trades /\ TooOld(pressure_ts))))
        => AbortedForLag

\* a cycle stopped by the pressure age alone
C10_Witness ==
    /\ AbortedForLag
    /\ gateResult.issues = {"pressure_lag"}
    /\ kline_last_update = data_freshness_threshold
    /\ TooOld(pressure_ts)

\* C11: the decision history file never holds more than HistoryLimit
\* entries, whatever the interleaving of the journal writes.
C11_FileAtMostLimit == Len(historyFile) <= HistoryLimit

\* C12: between an update that breaks the sequence (seqId < prevSeqId, or a
\* prevSeqId that is not the seqId of the message before it) and the next
\* snapshot, the book is marked uninitialized.
C12_BrokenSequenceUninitializes ==
    (snapSeen /\ ~streamOk) => ~orderbook_initialized

\* C13: an update handled while no snapshot has arrived since the instance
\* started leaves the stored book and its lastSeqId as they were, and the
\* symbol stays uninitialized.
C13_UpdateBeforeSnapshotDropped ==
    [][(~snapSeen /\ bookLast' \in {"update", "gap", "reset"})
          => /\ bookBids' = bookBids
             /\ bookAsks' = bookAsks
             /\ lastSeqId' = lastSeqId
             /\ ~orderbook_initialized']_vars

C13_Witness ==
    /\ ~snapSeen
    /\ bookLast \in {"update", "gap", "reset"}
    /\ exSeq # NoSeq
    /\ ~orderbook_initialized

C15_KlinesInReceiveOrder == [][klineDone' >= klineDone]_vars

\* C16: no LLM decision call has two ConversationRecords, and a record is
\* marked executed only by the execution report of its own call.
C16_OneRecordPerCall ==
    \A i, j \in 1..Len(conversations) :
        /\ conversations[i].call = conversations[j].call => i = j
        /\ conversations[i].markedFor \subseteq {conversations[i].call}

AllSavesDone ==
    /\ saveTasks # <<>>
    /\ \A t \in 1..Len(saveTasks) : saveTasks[t].pc = "done"

IsNewEntry(e) == e # 0

\* C17: once every save has finished, each response saved since startup is
\* an entry of the in-memory history (fewer than HistoryLimit were saved, so
\* none is displaced) and the file equals the last entries of that history.
C17_JournalSerialized ==
    AllSavesDone =>
        /\ Len(SelectSeq(ai_decision_history, IsNewEntry)) = Len(conversations)
        /\ historyFile = LastN(ai_decision_history, HistoryLimit)

\* C18: when execute_trade has handled CLOSE_LONG or CLOSE_SHORT while the
\* position of that side was open, a close of that side has been issued.
C18_CloseIssued ==
    closeAsked # "none" =>
        \E i \in DOMAIN apiLog :
            /\ apiLog[i].call = "close_position"
            /\ apiLog[i].posSide = closeAsked

\* C19: while it waits for the position it has just opened (adjust_data
\* given), the orchestrator does not end: it either keeps waiting or starts
\* to apply the take-profit and stop-loss layers.
C19_WaitsForNewPosition ==
    [][orchPc = "sleep" => orchPc' \in {"sleep", "list_limit"}]_vars

\* What the layers of a plan must satisfy for a position or order of size
\* total: each given side sums to total within the tolerance, every layer
\* has a positive size and a positive price, and one side at least is given.
LayersFit(layers, total) ==
    /\ \A i \in DOMAIN layers : layers[i] > 0
    /\ layers = <<>> \/ Abs(SumSeq(layers) - total) <= Tolerance

PlanFits(ad, total) ==
    /\ ad.take_profit # <<>> \/ ad.stop_loss # <<>>
    /\ LayersFit(ad.take_profit, total)
    /\ LayersFit(ad.stop_loss, total)
    /\ ad.price_ok

C21_LayerFailureIsolated ==
    [][(orchPc = "place_tp" \/ orchPc = "place_sl")
          => /\ orchPc' \in {"place_tp", "place_sl", "applied"}
             /\ liveOrders \subseteq liveOrders']_vars

\* The orders of a set by kind, size and price with the number of orders of
\* each, their ids left out: what the claim compares.
WithoutIds(orders) ==
    {[kind |-> o.kind, size |-> o.size, px |-> o.px,
      count |-> Cardinality({x \in orders : /\ x.kind = o.kind
                                            /\ x.size = o.size
                                            /\ x.px = o.px})] : o \in orders}

SideOrders == {o \in liveOrders : o.posSide = applySide}

\* _apply_adjust_data is about to return for the side and the plan of the
\* application that returned before it, the position unchanged in between
Reapplied ==
    /\ orchPc = "applied"
    /\ prevApply.side = applySide
    /\ prevApply.plan = decision.adjust_data

C23_OpenSizeAtLeastMinSz ==
    orchPc = "open" =>
        /\ OpenSize(decision) >= minSz
        /\ decision.size < minSz => OpenSize(decision) = minSz

\* C24: when the stream has ended and the complete response does not parse,
\* ai_analysis returns the early decision that was delivered, its reason
\* replaced by the marker, or, when none was delivered, HOLD with
\* success = false and the parse-failure reason, and run_conversation was
\* never submitted.
C24_ParseFailureResult ==
    (llmPc = "done" /\ ~CompleteParses(llmResp.toks)) =>
        IF early_decision_triggered
        THEN /\ llmResult.signal = early_decision_data.signal
             /\ llmResult.confidence = early_decision_data.confidence
             /\ llmResult.reason = EarlyMarker
             /\ llmResult.success
             /\ analysis.signal = llmResult.signal
        ELSE /\ llmResult.signal = "HOLD"
             /\ ~llmResult.success
             /\ llmResult.reason = ParseFailed
             /\ submits = 0
             /\ orchCalls = {}

\* a response whose reason began and whose closing brace never came: the
\* early decision, not a HOLD, is what ai_analysis returned
C24_Witness ==
    /\ llmPc = "done"
    /\ ~CompleteParses(llmResp.toks)
    /\ early_decision_triggered
    /\ llmResult.signal = "OPEN_LONG"
    /\ llmResult.reason = EarlyMarker

\* C25: a request that opens a position or lists, cancels or places the
\* orders of one is made only with auto_execute set and for a decision whose
\* signal is not HOLD, HOLD_LONG or HOLD_SHORT; a decision that
\* run_conversation passes over changes no order and no position.
C25_NoOrdersWithoutPermission ==
    [][/\ (orchPc \notin {"new", "idle"})
            => (auto_execute /\ decision.signal \notin HoldSignals \cup {NoVal})
       /\ (passedOver' /\ vars' # vars)
            => (liveOrders' = liveOrders /\ positions' = positions)
       /\ (~auto_execute) => (liveOrders' = {} /\ positions' = positions)]_vars

\* a decision came while auto_execute was off and was passed over
C25_Witness ==
    /\ ~auto_execute
    /\ passedOver
    /\ orchPc = "idle"
    /\ liveOrders = {}

C27_RefresherKeepsTicking ==
    (posPc = "diff") ~> (posPc \in {"tick", "stopped"})

\* C28 as amended: once the store holds a review summary of a closed
\* position, no later tick of the history loop calls the LLM for it.
C28_NoCallOnceReviewed ==
    [][\A id \in PosIds :
          (historyTick' # historyTick /\ id \in reviewed)
              => id \notin lastCalls']_vars

C28_Witness ==
    /\ reviewed # {}
    /\ lastCalls = {}

\* C28 as written: a tick of the history loop never calls the LLM for a
\* position an earlier tick called it for.
C28_Original ==
    [][\A id \in PosIds :
          (historyTick' # historyTick /\ id \in attempted)
              => id \notin lastCalls']_vars

\* The expected bar openings of the history window at the clock reading now
ExpectedSet(now) ==
    {ts \in start_time_ms(now)..end_time_ms(now) : ts % BarMs = 0}

\* The maximal runs of consecutive bar openings in a set, each as the pair
\* of its first and its last opening
Runs(openings) ==
    {r \in openings \X openings :
        /\ r[1] <= r[2]
        /\ \A ts \in r[1]..r[2] : ts % BarMs = 0 => ts \in openings
        /\ r[1] - BarMs \notin openings
        /\ r[2] + BarMs \notin openings}

RangesAscending(ranges) ==
    \A i \in 1..(Len(ranges) - 1) : ranges[i][1] < ranges[i + 1][1]

\* C29 as amended: gap detection returns, in ascending order, one pair for
\* each maximal run of expected openings that are not persisted: the first
\* missing opening of the run and the opening one bar after its last
\* missing one; with no row at all in the store it returns the one pair
\* (start_aligned, now_aligned).
C29_GapsAsHalfOpenRanges ==
    [][(backPc = "idle" /\ backPc' \in {"fetch", "done"})
          => /\ RangesAscending(missing_ranges')
             /\ Range(missing_ranges') =
                  IF dbBars = {}
                  THEN {<<start_time_ms(histClock), end_time_ms(histClock)>>}
                  ELSE {<<r[1], r[2] + BarMs>> :
                          r \in Runs(ExpectedSet(histClock) \ dbBars)}]_vars

C29_Witness ==
    /\ backPc = "fetch"
    /\ toFill = missing_ranges
    /\ Len(missing_ranges) = 2
    /\ requested = {}
    /\ dbBars \cap ExpectedSet(histClock) # {}

\* C29 as written: gap detection returns, in ascending order, one pair for
\* each maximal run of expected openings that are not persisted: the first
\* and the last missing opening of the run.
C29_Original ==
    [][(backPc = "idle" /\ backPc' \in {"fetch", "done"})
          => /\ RangesAscending(missing_ranges')
             /\ Range(missing_ranges') =
                  Runs(ExpectedSet(histClock) \ dbBars)]_vars

\* C30: a history initialisation that finds every expected opening of the
\* window persisted asks the exchange for nothing and adds no row; so does
\* the one that runs right after a backfill that filled every gap.  Rows
\* are added and requests made only for ranges that detection returned.
C30_NothingToBackfill ==
    [][/\ (backPc = "idle" /\ backPc' \in {"fetch", "done"}
              /\ ExpectedSet(histClock) \subseteq dbBars)
            => /\ backPc' = "done"
               /\ missing_ranges' = <<>>
       /\ (backPc' = "done" /\ missing_ranges' = <<>>)
            => /\ requested' = {}
               /\ insertedRows' = {}
       /\ requested' \subseteq Range(missing_ranges')]_vars

C30_Witness ==
    /\ backPc = "done"
    /\ missing_ranges = <<>>
    /\ prevInserted # {}
    /\ insertedRows = {}
    /\ ExpectedSet(histClock) \subseteq dbBars

\* C31: a call of _fetch_and_save_klines returns.  It asks again only
\* after an answer without error that held a full page whose oldest
\* timestamp was not the cursor, and it makes at most max_iterations
\* requests.
C31_PagingTerminates ==
    /\ [][(pagePc = "loop" /\ pagePc' = "loop")
            => /\ lastPage'.res = "ok"
               /\ lastPage'.len = PageSize
               /\ lastPage'.oldest # current_after
               /\ current_after' = lastPage'.oldest
               /\ iteration' < max_iterations]_vars
    /\ [](iteration <= max_iterations)
    /\ (pagePc = "loop") ~> (pagePc = "returned")

C31_Witness ==
    /\ pagePc = "returned"
    /\ iteration = max_iterations
    /\ lastPage.res = "ok"
    /\ lastPage.len = PageSize
    /\ lastPage.oldest = current_after
    /\ count = max_iterations * PageSize

\* C32: when the repair at start is over, every kline that was unconfirmed
\* and whose bar end was before the corrected time is confirmed with the
\* data of a fetched candle, unless its request failed, and every kline
\* that was unconfirmed and whose bar end was not before the corrected time
\* is as it was.
C32_StartupRepair ==
    (timePc = "repaired" /\ lastRead.by = "repair") =>
        \A ts \in unconfirmed :
            IF ts + BarMs < lastRead.corrected
            THEN fixAnswers[ts] \notin {"error", "empty", "raise"}
                    => /\ storedKlines[ts].confirmed
                       /\ storedKlines[ts].data # "live"
            ELSE storedKlines[ts] = LiveRow

\* v is the element at position floor(n/2), counted from 0, of the sorted
\* samples
IsUpperMedian(v, seq) ==
    /\ \E i \in DOMAIN seq : seq[i] = v
    /\ Cardinality({i \in DOMAIN seq : seq[i] < v}) <= Len(seq) \div 2
    /\ Cardinality({i \in DOMAIN seq : seq[i] <= v}) > Len(seq) \div 2

C34_CorrectedNowEverywhere ==
    lastRead.now = lastRead.corrected

PairsBeforeReason(toks) == SubSeq(toks, 1, ReasonStart(toks) - 1)

\* C36: when the pairs that precede "reason" include adjust_data, the early
\* decision that was extracted and handed on carries the adjust_data of the
\* full response, also when adjust_data is the last pair before "reason".
C36_EarlyAdjustData ==
    (/\ early_decision_triggered
     /\ "adjust_data" \in Range(PairsBeforeReason(llmResp.toks)))
        => parse_ai_json_response(early_decision_data).adjust_data
             = parse_ai_json_response(
                 JsonDict(TopKeys(llmResp.toks), llmResp.signal)).adjust_data

\* C37: with auto_execute set, a decision other than HOLD that comes from
\* the parse of the complete response alone, no early decision having been
\* extracted during the stream, has been handed to run_conversation exactly
\* once when ai_analysis returns.
C37_FinalDecisionDispatched ==
    (/\ auto_execute
     /\ llmPc = "done"
     /\ ~early_decision_triggered
     /\ llmResult.success
     /\ llmResult.signal \notin HoldSignals)
        => submits = 1

\* the monitored sources that have a recorded timestamp older than the
\* timeout
StaleRecorded ==
    {a \in {kline_age, trade_age, book_age} :
        a # NoTs /\ a > DataTimeoutSeconds}

C39_FailedRefreshChangesNothing ==
    [][refreshResult' \in {"error", "raise"}
          => /\ cached_ctimes' = cached_ctimes
             /\ positions_last_update' = positions_last_update
             /\ notified' = notified /\ posted' = posted
             /\ toNotify' = toNotify
             /\ posPc' # "diff"]_vars

\* C39 witness: a position of the cached snapshot is closed on the
\* exchange, the refresh failed, and the snapshot holds it still with its
\* stamp and no notification.
C39_Witness ==
    /\ refreshResult = "error"
    /\ posPc = "tick"
    /\ cached_ctimes # {} /\ exchOpen = {}
    /\ positions_last_update = 1
    /\ notified = {}

\* the steps of one application of layered TP/SL
ApplySteps == {"list_limit", "cancel_limit", "list_algo", "cancel_algo",
               "place_tp", "place_sl"}
\* the live orders of the positions other than sd
OrdersOfOthers(orders, sd) == {o \in orders : o.posSide # sd}

\* C40: a step of the application of layered TP/SL to the position of one
\* side leaves the live orders whose posSide is the other side as they
\* are: none of them is cancelled and none is added.
C40_OtherSideUntouched ==
    [][(orchPc \in ApplySteps)
          => (OrdersOfOthers(liveOrders', applySide)
                = OrdersOfOthers(liveOrders, applySide))]_vars

\* C40 witness: while the long position has live orders, both listings
\* of an application to the short position were answered, which showed the
\* orders of the long position to the cancelling loops, and layers were
\* placed for the short position.
C40_Witness ==
    /\ orchPc = "applied"
    /\ applySide = "short"
    /\ OrdersOfOthers(liveOrders, "short") # {}
    /\ ~cancelFailed
    /\ \E i \in DOMAIN apiLog : apiLog[i].call = "list_limit"
    /\ \E i \in DOMAIN apiLog : apiLog[i].call = "list_algo"
    /\ \E i \in DOMAIN apiLog : apiLog[i].call = "place_tp"
    /\ \E i \in DOMAIN apiLog : apiLog[i].call = "place_sl"

====
